---- MODULE Spec2Model ----
(***************************************************************************)
(* universal-regex-handler: the dialect wrappers JavaRegex, PythonRegex,   *)
(* CSharpRegex, RustRegex and GoRegex over the JavaScript RegExp           *)
(* primitive.                                                              *)
(*                                                                         *)
(* Strings are sequences of one-character strings.  The RegExp primitive   *)
(* is modelled for the pattern fragment  literal, ^, $, (?:), x*, x|y,    *)
(* (?<n>x)  with the flags g, i, y acting as ECMAScript defines them.      *)
(***************************************************************************)
EXTENDS Integers, Sequences, FiniteSets, TLC

VARIABLES
    java,      \* the JavaRegex instance of Java.ts lines 8-107
    java2,     \* the JavaRegex instance of Java.ts lines 109-185
    jresult,   \* what the last JavaRegex call returned
    python,    \* the PythonRegex instance of Python.ts lines 157-343
    python1,   \* the PythonRegex instance of Python.ts lines 1-146
    csharp,    \* the CSharpRegex instance
    rust,      \* the RustRegex instance
    go,        \* the GoRegex instance
    pc,        \* the method whose loop is running, "idle" between calls
    frame,     \* the locals of the running method
    result     \* what the last PythonRegex, CSharpRegex, RustRegex or GoRegex call returned

instances == <<java, java2, python, python1, csharp, rust, go>>

call == <<pc, frame, result>>

vars == <<instances, jresult, call>>

-----------------------------------------------------------------------------
(* Bounds *)

\* Longest JavaRegex pattern, in characters.
MaxJavaPatLen == 9

\* Longest pattern handed to the other classes, in characters.
MaxPatLen == 3

\* Longest text a method is called on, in characters.
MaxTextLen == 3

\* Largest count handed to sub and largest maxsplit handed to split.
MaxCount == 2

\* A loop is followed for at most this many exec calls.
MaxExecs == 6

\* Longest string handed to Escape, in characters.
MaxEscapeLen == 3

-----------------------------------------------------------------------------
(* Strings *)

NoString == <<"<null>">>

SubSeqFrom(s, from) == SubSeq(s, from, Len(s))

\* s.substring(a, b) on 0-based offsets.
Substring(s, a, b) == SubSeq(s, a + 1, b)

\* s.includes(t)
Includes(s, t) ==
    \E k \in 0..(Len(s) - Len(t)) : SubSeq(s, k + 1, k + Len(t)) = t

\* Array.prototype.join(sep) of an array of strings.
RECURSIVE Join(_, _)
Join(ss, sep) ==
    IF ss = <<>> THEN <<>>
    ELSE IF Len(ss) = 1 THEN ss[1]
    ELSE ss[1] \o sep \o Join(Tail(ss), sep)

\* Set.prototype.add on an insertion-ordered set.
SetAdd(s, c) == IF \E k \in 1..Len(s) : s[k] = c THEN s ELSE Append(s, c)

\* Set.prototype.delete on an insertion-ordered set; also
\* str.replace(new RegExp(c, 'g'), '') for a one-letter c.
RECURSIVE RemoveAll(_, _)
RemoveAll(s, c) ==
    IF s = <<>> THEN <<>>
    ELSE IF Head(s) = c THEN RemoveAll(Tail(s), c)
    ELSE <<Head(s)>> \o RemoveAll(Tail(s), c)

SeqHas(s, c) == \E k \in 1..Len(s) : s[k] = c

\* Math.min
Min(a, b) == IF a < b THEN a ELSE b

-----------------------------------------------------------------------------
(* JavaRegex: the inline flag directives *)

\* The character class [imxs-] of flagRegex.
FlagClass == {"i", "m", "x", "s", "-"}

\* Length of the run of [imxs-] characters of p that starts at index k (1-based).
RECURSIVE ClassRun(_, _)
ClassRun(p, k) ==
    IF k <= Len(p) /\ p[k] \in FlagClass THEN 1 + ClassRun(p, k + 1) ELSE 0

\* flagRegex matches at index k of p: "(?" a non-empty run of [imxs-] and ")".
DirectiveAt(p, k) ==
    /\ k + 3 <= Len(p)
    /\ p[k] = "("
    /\ p[k + 1] = "?"
    /\ ClassRun(p, k + 2) >= 1
    /\ k + 2 + ClassRun(p, k + 2) <= Len(p)
    /\ p[k + 2 + ClassRun(p, k + 2)] = ")"

\* Index after the directive at k.
DirectiveEnd(p, k) == k + 3 + ClassRun(p, k + 2)

\* match[1] of the directive at k.
DirectiveBody(p, k) == SubSeq(p, k + 2, k + 1 + ClassRun(p, k + 2))

\* The successive flagRegex.exec(pattern) results from index k on: the bodies
\* of the directives, leftmost first, none overlapping.
RECURSIVE flagRegexMatches(_, _)
flagRegexMatches(p, k) ==
    IF k > Len(p) THEN <<>>
    ELSE IF DirectiveAt(p, k)
         THEN <<DirectiveBody(p, k)>> \o flagRegexMatches(p, DirectiveEnd(p, k))
         ELSE flagRegexMatches(p, k + 1)

\* pattern.replace(flagRegex, '') had flagRegex lost its g flag: only the
\* first directive goes.
RECURSIVE StripFirstDirective(_, _)
StripFirstDirective(p, k) ==
    IF k > Len(p) THEN <<>>
    ELSE IF DirectiveAt(p, k)
         THEN SubSeq(p, DirectiveEnd(p, k), Len(p))
         ELSE <<p[k]>> \o StripFirstDirective(p, k + 1)

\* pattern.replace(flagRegex, '')
RECURSIVE StripDirectives(_, _)
StripDirectives(p, k) ==
    IF k > Len(p) THEN <<>>
    ELSE IF DirectiveAt(p, k)
         THEN StripDirectives(p, DirectiveEnd(p, k))
         ELSE <<p[k]>> \o StripDirectives(p, k + 1)

\* First definition, the inner loop over j at a '-': every character up to
\* the next '-' goes to flagsToRemove and leaves flagsToAdd.
RECURSIVE RemoveRun(_, _, _)
RemoveRun(body, j, st) ==
    IF j <= Len(body) /\ body[j] # "-"
    THEN RemoveRun(body, j + 1,
                   [add |-> RemoveAll(st.add, body[j]),
                    remove |-> st.remove \cup {body[j]}])
    ELSE st

\* First definition, the loop over i of one directive body.
RECURSIVE ScanBody(_, _, _)
ScanBody(body, i, st) ==
    IF i > Len(body) THEN st
    ELSE IF body[i] = "-"
         THEN ScanBody(body, i + 1, RemoveRun(body, i + 1, st))
         ELSE IF body[i] \notin st.remove
              THEN ScanBody(body, i + 1, [st EXCEPT !.add = SetAdd(st.add, body[i])])
              ELSE ScanBody(body, i + 1, st)

\* First definition, the while loop over the directives: one pair of sets
\* for the whole pattern.
RECURSIVE ScanDirectives(_, _)
ScanDirectives(bodies, st) ==
    IF bodies = <<>> THEN st
    ELSE ScanDirectives(Tail(bodies), ScanBody(Head(bodies), 1, st))

\* Second definition, the loop "for (const char of flagsInMatch)".
RECURSIVE Classify(_, _, _)
Classify(body, i, st) ==
    IF i > Len(body) THEN st
    ELSE IF body[i] = "-" THEN Classify(body, i + 1, st)
    ELSE IF Includes(body, <<"-", body[i]>>)
         THEN Classify(body, i + 1, [st EXCEPT !.remove = SetAdd(st.remove, body[i])])
         ELSE Classify(body, i + 1, [st EXCEPT !.add = SetAdd(st.add, body[i])])

\* Second definition, "for (const flag of flagsToRemove)".
RECURSIVE DropFlags(_, _)
DropFlags(flags, rem) ==
    IF rem = <<>> THEN flags ELSE DropFlags(RemoveAll(flags, Head(rem)), Tail(rem))

\* Second definition, "for (const flag of flagsToAdd)".
RECURSIVE AddFlags(_, _)
AddFlags(flags, add) ==
    IF add = <<>> THEN flags ELSE AddFlags(SetAdd(flags, Head(add)), Tail(add))

\* Second definition, the loop "for (const match of matches)".
RECURSIVE ApplyDirectives(_, _)
ApplyDirectives(bodies, flags) ==
    IF bodies = <<>> THEN flags
    ELSE LET st == Classify(Head(bodies), 1, [add |-> <<>>, remove |-> <<>>])
         IN  ApplyDirectives(Tail(bodies), AddFlags(DropFlags(flags, st.remove), st.add))

-----------------------------------------------------------------------------
(* The RegExp primitive *)

\* What new RegExp throws, in the place of the object it would return.
SyntaxError == [source |-> <<"SyntaxError">>, flags |-> <<>>, lastIndex |-> 0, program |-> <<>>]

\* The flag characters the primitive accepts, in the order RegExp.prototype.flags
\* reports them.
FlagOrder == <<"d", "g", "i", "m", "s", "u", "v", "y">>

\* new RegExp(p, f) accepts f: known characters, none twice.
ValidFlags(f) ==
    /\ \A k \in 1..Len(f) : SeqHas(FlagOrder, f[k])
    /\ \A k \in 1..Len(f) : \A t \in (k + 1)..Len(f) : f[t] # f[k]

\* RegExp.prototype.flags: the flags given, in FlagOrder.
RECURSIVE CanonFlagsFrom(_, _)
CanonFlagsFrom(f, k) ==
    IF k > Len(FlagOrder) THEN <<>>
    ELSE (IF SeqHas(f, FlagOrder[k]) THEN <<FlagOrder[k]>> ELSE <<>>)
         \o CanonFlagsFrom(f, k + 1)

CanonFlags(f) == CanonFlagsFrom(f, 1)

\* The character `, which a TLA+ string cannot hold.
Backtick == "BACKTICK"

\* The characters a pattern may match literally.
Letters == {"a", "b", "A", "B", Backtick}

Fold(c) == IF c = "A" THEN "a" ELSE IF c = "B" THEN "b" ELSE c

\* Canonicalize of the 'i' flag.
CharEq(c, d, ic) == c = d \/ (ic /\ Fold(c) = Fold(d))

EmptyGroup == <<"(", "?", ":", ")">>

\* RegExp.prototype.source: the pattern text, the empty pattern as (?:).
Source(p) == IF p = <<>> THEN EmptyGroup ELSE p

\* s split at every c.
RECURSIVE SplitOn(_, _, _)
SplitOn(s, c, acc) ==
    IF s = <<>> THEN <<acc>>
    ELSE IF Head(s) = c THEN <<acc>> \o SplitOn(Tail(s), c, <<>>)
    ELSE SplitOn(Tail(s), c, Append(acc, Head(s)))

\* The characters of group names.
NameChars == {"n", "m"}

\* A named group around one letter, (?<name>c), starts at index k of alt.
NamedGroupAt(alt, k) ==
    /\ k + 6 <= Len(alt)
    /\ SubSeq(alt, k, k + 2) = <<"(", "?", "<">>
    /\ alt[k + 3] \in NameChars
    /\ alt[k + 4] = ">"
    /\ alt[k + 5] \in Letters
    /\ alt[k + 6] = ")"

\* A term: the atom (a letter, "^", "$", "eps" for (?:), or "bad" where the
\* text is no term), whether a star follows it, and the name of the group
\* around it, "" for none.
Term(a, star, name) == [a |-> a, star |-> star, name |-> name]

\* The terms of one alternative from index k on.
RECURSIVE Terms(_, _)
Terms(alt, k) ==
    IF k > Len(alt) THEN <<>>
    ELSE IF alt[k] \in {"^", "$"}
         THEN <<Term(alt[k], FALSE, "")>> \o Terms(alt, k + 1)
    ELSE IF alt[k] \in Letters
         THEN IF k + 1 <= Len(alt) /\ alt[k + 1] = "*"
              THEN <<Term(alt[k], TRUE, "")>> \o Terms(alt, k + 2)
              ELSE <<Term(alt[k], FALSE, "")>> \o Terms(alt, k + 1)
    ELSE IF k + 3 <= Len(alt) /\ SubSeq(alt, k, k + 3) = EmptyGroup
         THEN IF k + 4 <= Len(alt) /\ alt[k + 4] = "*"
              THEN <<Term("eps", TRUE, "")>> \o Terms(alt, k + 5)
              ELSE <<Term("eps", FALSE, "")>> \o Terms(alt, k + 4)
    ELSE IF NamedGroupAt(alt, k)
         THEN <<Term(alt[k + 5], FALSE, alt[k + 3])>> \o Terms(alt, k + 7)
    ELSE <<Term("bad", FALSE, "")>>

\* The disjunction: the alternatives of the pattern text, in order.
Parse(src) ==
    LET alts == SplitOn(src, "|", <<>>)
    IN  [j \in 1..Len(alts) |-> Terms(alts[j], 1)]

\* The primitive compiles the parsed pattern: every term is a term.
ValidProgram(ast) ==
    \A j \in 1..Len(ast) : \A k \in 1..Len(ast[j]) : ast[j][k].a # "bad"

\* new RegExp(pattern, flags): the object holds the compiled pattern.
NewRegExp(p, f) ==
    LET ast == Parse(Source(p))
    IN  IF ValidProgram(ast) /\ ValidFlags(f)
        THEN [source |-> Source(p), flags |-> CanonFlags(f), lastIndex |-> 0,
              program |-> ast]
        ELSE SyntaxError

\* The message of the SyntaxError new RegExp(p, f) throws.
ErrorMessage(p, f) ==
    IF ~ValidFlags(f)
    THEN <<"Invalid flags supplied to RegExp constructor '">> \o f \o <<"'">>
    ELSE <<"Invalid regular expression: /">> \o p \o <<"/">> \o f
         \o <<": Nothing to repeat">>

\* How many characters from offset pos on equal c.
RECURSIVE Run(_, _, _, _)
Run(text, pos, c, ic) ==
    IF pos < Len(text) /\ CharEq(text[pos + 1], c, ic)
    THEN 1 + Run(text, pos + 1, c, ic) ELSE 0

\* The backtracking matcher on the terms i.. of one alternative at offset pos:
\* the end offset of the first match in priority order, or -1.
RECURSIVE MatchTerms(_, _, _, _, _), TryStar(_, _, _, _, _, _)
MatchTerms(ts, i, text, pos, ic) ==
    IF i > Len(ts) THEN pos
    ELSE IF ts[i].a = "^"
         THEN IF pos = 0 THEN MatchTerms(ts, i + 1, text, pos, ic) ELSE -1
    ELSE IF ts[i].a = "$"
         THEN IF pos = Len(text) THEN MatchTerms(ts, i + 1, text, pos, ic) ELSE -1
    ELSE IF ts[i].a = "eps"
         THEN MatchTerms(ts, i + 1, text, pos, ic)
    ELSE IF ts[i].star
         THEN TryStar(ts, i, text, pos, Run(text, pos, ts[i].a, ic), ic)
    ELSE IF pos < Len(text) /\ CharEq(text[pos + 1], ts[i].a, ic)
         THEN MatchTerms(ts, i + 1, text, pos + 1, ic)
         ELSE -1

\* A greedy star: the longest run first, then one fewer.
TryStar(ts, i, text, pos, n, ic) ==
    IF n < 0 THEN -1
    ELSE LET r == MatchTerms(ts, i + 1, text, pos + n, ic)
         IN  IF r >= 0 THEN r ELSE TryStar(ts, i, text, pos, n - 1, ic)

\* The alternatives j.. in order: the first that matches at pos decides.
RECURSIVE MatchAlts(_, _, _, _, _)
MatchAlts(ast, j, text, pos, ic) ==
    IF j > Len(ast) THEN -1
    ELSE LET r == MatchTerms(ast[j], 1, text, pos, ic)
         IN  IF r >= 0 THEN r ELSE MatchAlts(ast, j + 1, text, pos, ic)

\* The value of a capture group that took no part in the match.
Undefined == <<"<undefined>">>

\* The captures of the groups of the terms i.. of the alternative that
\* matched, the match being at offset pos of the text.
RECURSIVE TermCaptures(_, _, _, _, _)
TermCaptures(ts, i, text, pos, ic) ==
    IF i > Len(ts) THEN <<>>
    ELSE LET after == IF ts[i].a \in {"^", "$", "eps"} THEN pos
                      ELSE IF ts[i].star
                           THEN CHOOSE e \in pos..Len(text) :
                                   /\ e - pos <= Run(text, pos, ts[i].a, ic)
                                   /\ MatchTerms(ts, i + 1, text, e, ic) >= 0
                                   /\ \A f \in (e + 1)..(pos + Run(text, pos, ts[i].a, ic)) :
                                          MatchTerms(ts, i + 1, text, f, ic) < 0
                           ELSE pos + 1
         IN  (IF ts[i].name = "" THEN <<>> ELSE <<Substring(text, pos, after)>>)
             \o TermCaptures(ts, i + 1, text, after, ic)

\* The groups of an alternative that took no part in the match.
NoCaptures(ts) ==
    [k \in 1..Len(SelectSeq(ts, LAMBDA t : t.name # "")) |-> Undefined]

\* match[1], match[2], ... of the match at offset pos: the alternatives j..
\* in order, the first that matches at pos filling its groups.
RECURSIVE AltCaptures(_, _, _, _, _, _)
AltCaptures(ast, j, text, pos, ic, done) ==
    IF j > Len(ast) THEN <<>>
    ELSE IF ~done /\ MatchTerms(ast[j], 1, text, pos, ic) >= 0
         THEN TermCaptures(ast[j], 1, text, pos, ic)
              \o AltCaptures(ast, j + 1, text, pos, ic, TRUE)
         ELSE NoCaptures(ast[j]) \o AltCaptures(ast, j + 1, text, pos, ic, done)

Captures(re, text, pos) ==
    AltCaptures(re.program, 1, text, pos, SeqHas(re.flags, "i"), FALSE)

\* The pattern matches at offset pos: the end offset, or -1.
MatchAt(re, text, pos) ==
    MatchAlts(re.program, 1, text, pos, SeqHas(re.flags, "i"))

\* The leftmost offset >= pos where the pattern matches, or -1.
RECURSIVE Scan(_, _, _)
Scan(re, text, pos) ==
    IF pos > Len(text) THEN -1
    ELSE IF MatchAt(re, text, pos) >= 0 THEN pos
    ELSE Scan(re, text, pos + 1)

IsGlobal(re) == SeqHas(re.flags, "g")
IsSticky(re) == SeqHas(re.flags, "y")

\* RegExp.prototype.exec: the match (found, index, end) and the lastIndex the
\* call leaves behind.  With g or y the search starts at lastIndex and the
\* call writes lastIndex; with y the match must start there.
Exec(re, text) ==
    LET cursor == IsGlobal(re) \/ IsSticky(re)
        from   == IF cursor THEN re.lastIndex ELSE 0
        at     == IF from > Len(text) THEN -1
                  ELSE IF IsSticky(re)
                       THEN (IF MatchAt(re, text, from) >= 0 THEN from ELSE -1)
                       ELSE Scan(re, text, from)
        e      == MatchAt(re, text, at)
    IN  IF at < 0
        THEN [found |-> FALSE, index |-> -1, end |-> -1,
              lastIndex |-> IF cursor THEN 0 ELSE re.lastIndex]
        ELSE [found |-> TRUE, index |-> at, end |-> e,
              lastIndex |-> IF cursor THEN e ELSE re.lastIndex]

\* match[0]
Matched(text, m) == Substring(text, m.index, m.end)

\* The matches a global regex yields from lastIndex li on, as
\* String.prototype.replace and matchAll walk them: after an empty match the
\* cursor advances by one.
RECURSIVE GlobalMatches(_, _, _)
GlobalMatches(re, text, li) ==
    LET r == Exec([re EXCEPT !.lastIndex = li], text)
    IN  IF ~r.found THEN <<>>
        ELSE <<r>> \o GlobalMatches(re, text,
                        IF r.end = r.index THEN r.lastIndex + 1 ELSE r.lastIndex)

\* The matches String.prototype.replace replaces: all from offset 0 for a
\* global regex, else the one exec finds.
ReplaceMatches(re, text) ==
    IF IsGlobal(re) THEN GlobalMatches(re, text, 0)
    ELSE LET r == Exec(re, text) IN IF r.found THEN <<r>> ELSE <<>>

\* The text with the n-th match of ms replaced by reps[n], for n.., the text
\* before offset pos already written.
RECURSIVE Splice(_, _, _, _, _)
Splice(text, ms, reps, n, pos) ==
    IF n > Len(ms) THEN Substring(text, pos, Len(text))
    ELSE Substring(text, pos, ms[n].index) \o reps[n]
         \o Splice(text, ms, reps, n + 1, ms[n].end)

\* text.replace(re, replacement) for a replacement string without '$'.
StringReplace(text, re, replacement) ==
    LET ms == ReplaceMatches(re, text)
    IN  Splice(text, ms, [n \in 1..Len(ms) |-> replacement], 1, 0)

\* The loop of RegExp.prototype[Symbol.split]: p the start of the piece being
\* cut, q the offset the sticky copy of re is tried at, lim < 0 for no limit.
RECURSIVE SplitFrom(_, _, _, _, _, _)
SplitFrom(re, text, p, q, acc, lim) ==
    IF q >= Len(text) THEN Append(acc, Substring(text, p, Len(text)))
    ELSE LET e == MatchAt(re, text, q)
         IN  IF e < 0 \/ e = p THEN SplitFrom(re, text, p, q + 1, acc, lim)
             ELSE IF Len(acc) + 1 = lim THEN Append(acc, Substring(text, p, q))
             ELSE SplitFrom(re, text, e, e, Append(acc, Substring(text, p, q)), lim)

\* text.split(re, limit), limit < 0 standing for undefined and for -1.  The
\* method works on a copy of re and leaves re.lastIndex alone.
StringSplit(text, re, limit) ==
    IF limit = 0 THEN <<>>
    ELSE IF text = <<>>
         THEN (IF MatchAt(re, text, 0) >= 0 THEN <<>> ELSE <<text>>)
    ELSE SplitFrom(re, text, 0, 0, <<>>, limit)

-----------------------------------------------------------------------------
(* Instances and calls *)

\* No instance of the class was constructed.
None == [none |-> TRUE]

\* The constructor threw: there is no instance to call.
NoInstance == [threw |-> TRUE]

\* A RegExp local not yet assigned.
Unset == [source |-> <<>>, flags |-> <<>>, lastIndex |-> 0, program |-> <<>>]

\* The locals of the looping methods: the text, the method's own RegExp, the
\* matches or pieces collected so far with their offsets in the text, the
\* method's cursor variables, the number of exec calls made, the parameter n
\* and the local count of the GoRegex loops, the lastIndex the receiver's
\* RegExp had when the call began, and the names namedCaptures collects.
IdleFrame ==
    [text |-> <<>>, regex |-> Unset, spans |-> <<>>, lastIndex |-> 0,
     currentPosition |-> 0, splits |-> 0, maxsplit |-> 0, execs |-> 0,
     n |-> 0, count |-> 0, from |-> 0, names |-> <<>>]

\* What the last call returned, NoResult while a call is running: the method,
\* its arguments (text, a second string arg, a number n), the lastIndex the
\* receiver's RegExp had when the call began, whether the call threw, the
\* strings returned (the message when it threw), a number returned with them,
\* the offsets [index, end) of the matches returned, a boolean return value,
\* and the number of exec calls the method made.
NoResult ==
    [op |-> "none", text |-> <<>>, arg |-> <<>>, n |-> 0, from |-> 0,
     threw |-> FALSE, out |-> <<>>, count |-> 0, spans |-> <<>>, ok |-> FALSE,
     execs |-> 0]

Thrown(op, text, n) ==
    [NoResult EXCEPT !.op = op, !.text = text, !.n = n, !.threw = TRUE]

\* A PythonRegex or CSharpRegex holds nothing a method writes (its RegExp has
\* no g or y flag), so every call finds the instance as the constructor left
\* it: a behaviour follows the first call made on the instance.
Ready == pc = "idle" /\ result = NoResult

\* The characters patterns are written in.
PatChars == {"a", "|", "*"}

Patterns == UNION {[1..n -> PatChars] : n \in 0..MaxPatLen}

\* The characters of the texts: with the flag i both match the pattern letter
\* a, without it only the first does.
TextChars == {"a", "A"}

Texts == UNION {[1..n -> TextChars] : n \in 0..MaxTextLen}

\* The substrings of text the spans name.
Strings(text, spans) == [k \in 1..Len(spans) |-> Matched(text, spans[k])]

-----------------------------------------------------------------------------
(* JavaRegex *)

\* The constructor threw: there is no instance.
Threw == [pattern |-> <<"threw">>, flags |-> <<>>, jsPattern |-> SyntaxError]

\* convertPattern of the first definition, with the constructor around it.
JavaRegex(pattern) ==
    LET st == ScanDirectives(flagRegexMatches(pattern, 1), [add |-> <<>>, remove |-> {}])
        re == NewRegExp(StripDirectives(pattern, 1), st.add)
    IN  IF re = SyntaxError THEN Threw
        ELSE [pattern |-> pattern, flags |-> st.add, jsPattern |-> re]

\* convertPattern of the second definition, with the constructor around it.
JavaRegex2(pattern) ==
    LET flags == ApplyDirectives(flagRegexMatches(pattern, 1), <<>>)
        re    == NewRegExp(StripDirectives(pattern, 1), flags)
    IN  IF re = SyntaxError THEN Threw
        ELSE [pattern |-> pattern, flags |-> flags, jsPattern |-> re]

\* The flag characters the directives of the modelled patterns are written in.
BodyChars == {"i", "m", "-"}

Bodies(n) == IF n < 1 THEN {} ELSE [1..n -> BodyChars]

Directive(body) == <<"(", "?">> \o body \o <<")">>

\* The patterns of exactly n characters: directives and the literals a and b,
\* in any order.
JavaPatternsOfLen[n \in 0..MaxJavaPatLen] ==
    IF n = 0 THEN {<<>>}
    ELSE {Append(p, c) : p \in JavaPatternsOfLen[n - 1], c \in {"a", "b"}}
         \cup UNION {{p \o Directive(b) : p \in JavaPatternsOfLen[n - 3 - k], b \in Bodies(k)}
                     : k \in 1..(n - 3)}

JavaPatterns == UNION {JavaPatternsOfLen[n] : n \in 0..MaxJavaPatLen}

\* The text the JavaRegex calls are made on.
JavaTexts == {<<"A", "a">>}

\* JavaRegex.match: match[0], or null.
JavaMatch(j, str) ==
    LET r == Exec(NewRegExp(j.jsPattern.source, j.flags), str)
    IN  IF r.found THEN Matched(str, r) ELSE NoString

\* JavaRegex.replace
JavaReplace(j, str, replacement) ==
    StringReplace(str, NewRegExp(j.jsPattern.source, j.flags \o <<"g">>), replacement)

\* JavaRegex.search
JavaSearch(j, str) ==
    <<Exec(NewRegExp(j.jsPattern.source, j.flags), str).index>>

\* new JavaRegex(p), by either definition of the class.
JavaInit ==
    \E p \in JavaPatterns :
        /\ java = JavaRegex(p)
        /\ java2 = JavaRegex2(p)
        /\ jresult = [op |-> "new", str |-> <<>>, out |-> <<>>, out2 |-> <<>>]
        /\ python = None /\ python1 = None /\ csharp = None /\ rust = None /\ go = None
        /\ pc = "idle" /\ frame = IdleFrame /\ result = NoResult

match ==
    /\ java # Threw /\ java2 # Threw
    /\ \E str \in JavaTexts :
          jresult' = [op |-> "match", str |-> str,
                      out |-> JavaMatch(java, str), out2 |-> JavaMatch(java2, str)]
    /\ UNCHANGED <<instances, call>>

replace ==
    /\ java # None /\ java # Threw /\ java2 # Threw
    /\ \E str \in JavaTexts :
          jresult' = [op |-> "replace", str |-> str,
                      out |-> JavaReplace(java, str, <<"x">>),
                      out2 |-> JavaReplace(java2, str, <<"x">>)]
    /\ UNCHANGED <<instances, call>>

search ==
    /\ java # Threw /\ java2 # Threw
    /\ \E str \in JavaTexts :
          jresult' = [op |-> "search", str |-> str,
                      out |-> JavaSearch(java, str), out2 |-> JavaSearch(java2, str)]
    /\ UNCHANGED <<instances, call>>

JavaNext == match \/ replace \/ search

SpecJava == JavaInit /\ [][JavaNext]_vars

-----------------------------------------------------------------------------
(* JavaRegex: the claims on the inline flag directives *)

FlagLetters == {"i", "m", "x", "s"}

\* The directive bodies of a pattern in document order, read off the text: a
\* body is a maximal run of [imxs-] between "(?" and ")".
IsBodySpan(p, s, e) ==
    /\ s >= 3 /\ s <= e /\ e < Len(p)
    /\ p[s - 2] = "(" /\ p[s - 1] = "?" /\ p[e + 1] = ")"
    /\ \A t \in s..e : p[t] \in FlagClass

RECURSIVE SpanBodies(_, _)
SpanBodies(p, s) ==
    IF s > Len(p) THEN <<>>
    ELSE IF \E e \in s..Len(p) : IsBodySpan(p, s, e)
         THEN LET e == CHOOSE x \in s..Len(p) : IsBodySpan(p, s, x)
              IN  <<SubSeq(p, s, e)>> \o SpanBodies(p, e + 1)
         ELSE SpanBodies(p, s + 1)

\* All directive bodies of p written one after the other, each closed by ")".
RECURSIVE Script(_)
Script(bodies) ==
    IF bodies = <<>> THEN <<>> ELSE Head(bodies) \o <<")">> \o Script(Tail(bodies))

\* The occurrence at index k of a directive script enables its flag: no '-'
\* stands between the start of its directive and k.
Enables(script, k) ==
    \A t \in 1..k : script[t] = "-" => \E u \in t..k : script[u] = ")"

\* The last occurrence of flag c in the script, 0 when there is none.
LastOccurrence(script, c) ==
    IF \E k \in 1..Len(script) : script[k] = c
    THEN CHOOSE k \in 1..Len(script) :
            script[k] = c /\ \A t \in (k + 1)..Len(script) : script[t] # c
    ELSE 0

\* Directives applied left to right, the last mention of a flag deciding it.
LastMentionWins(p) ==
    LET script == Script(SpanBodies(p, 1))
    IN  {c \in FlagLetters :
            /\ LastOccurrence(script, c) > 0
            /\ Enables(script, LastOccurrence(script, c))}

FlagSet(j) == {j.flags[k] : k \in 1..Len(j.flags)}

\* C1: in a pattern holding several directives the directives are applied left
\* to right and the last directive that mentions a flag decides it, for a
\* JavaRegex of either definition.
C1_LastDirectiveWins ==
    Len(SpanBodies(java.pattern, 1)) >= 2 =>
        /\ FlagSet(java) = LastMentionWins(java.pattern)
        /\ FlagSet(java2) = LastMentionWins(java2.pattern)

\* C2: within a single directive every flag before the '-' is enabled and
\* every flag after the '-' is disabled, however many stand on either side.
C2_SingleDirective ==
    Len(SpanBodies(java2.pattern, 1)) = 1 =>
        LET body == SpanBodies(java2.pattern, 1)[1]
            dash == IF SeqHas(body, "-")
                    THEN CHOOSE k \in 1..Len(body) :
                            body[k] = "-" /\ \A t \in 1..(k - 1) : body[t] # "-"
                    ELSE Len(body) + 1
            before == {body[k] : k \in 1..(dash - 1)}
            after  == {body[k] : k \in (dash + 1)..Len(body)} \ {"-"}
        IN  FlagSet(java2) = before \ after

\* The characters of p outside every directive group, in document order.
InDirective(p, k) ==
    \E s \in 3..(k + 2) : \E e \in s..(Len(p) - 1) :
        k <= e + 1 /\ IsBodySpan(p, s, e)

RECURSIVE Outside(_, _)
Outside(p, k) ==
    IF k > Len(p) THEN <<>>
    ELSE (IF InDirective(p, k) THEN <<>> ELSE <<p[k]>>) \o Outside(p, k + 1)

-----------------------------------------------------------------------------
(* PythonRegex, the definition of Python.ts lines 157-343 *)

\* [...new Set(s)]: the characters of s, each once, in order of first use.
RECURSIVE NewSet(_, _)
NewSet(s, acc) ==
    IF s = <<>> THEN acc ELSE NewSet(Tail(s), SetAdd(acc, Head(s)))

\* The constructor stores its arguments and compiles nothing.
PythonRegex(pattern, flags) == [pattern |-> pattern, flags |-> flags]

\* compileRegex: the instance flags and the extra flags, each once.
compileRegex(self, extraFlags) ==
    NewRegExp(self.pattern, NewSet(self.flags \o extraFlags, <<>>))

\* The flags PythonRegex instances are constructed with.
PyFlags == {<<>>, <<"i">>, <<"g">>}

\* findall up to the loop: the global regex and the empty list.
findall ==
    /\ Ready /\ python # None
    /\ \E text \in Texts :
          LET regex == compileRegex(python, <<"g">>)
          IN  IF regex = SyntaxError
              THEN /\ result' = Thrown("findall", text, 0)
                   /\ UNCHANGED <<pc, frame>>
              ELSE /\ pc' = "findall"
                   /\ frame' = [IdleFrame EXCEPT !.text = text, !.regex = regex]
                   /\ result' = NoResult
    /\ UNCHANGED <<instances, jresult>>

\* findall's loop body had it no guard against zero-length matches.
lastIndexKept(m) == m.lastIndex

\* regex.lastIndex after findall's loop body: one further after a
\* zero-length match.
lastIndexAfter(m) ==
    IF m.end - m.index = 0 THEN m.lastIndex + 1 ELSE m.lastIndex

\* One evaluation of findall's loop condition with the body or the return
\* that follows it.
findallLoop ==
    /\ pc = "findall"
    /\ LET m == Exec(frame.regex, frame.text)
       IN  IF m.found
           THEN /\ frame' = [frame EXCEPT
                       !.spans = Append(@, [index |-> m.index, end |-> m.end]),
                       !.regex.lastIndex = lastIndexAfter(m),
                       !.execs = @ + 1]
                /\ UNCHANGED <<pc, result>>
           ELSE /\ pc' = "idle"
                /\ frame' = IdleFrame
                /\ result' = [NoResult EXCEPT !.op = "findall", !.text = frame.text,
                                !.out = Strings(frame.text, frame.spans),
                                !.spans = frame.spans, !.execs = frame.execs + 1]
    /\ UNCHANGED <<instances, jresult>>

\* finditer up to the generator: the global regex; lastIndex = -1 is the
\* generator's first statement.
finditer ==
    /\ Ready /\ python # None
    /\ \E text \in Texts :
          LET regex == compileRegex(python, <<"g">>)
          IN  IF regex = SyntaxError
              THEN /\ result' = Thrown("finditer", text, 0)
                   /\ UNCHANGED <<pc, frame>>
              ELSE /\ pc' = "finditer"
                   /\ frame' = [IdleFrame EXCEPT !.text = text, !.regex = regex,
                                                 !.lastIndex = -1]
                   /\ result' = NoResult
    /\ UNCHANGED <<instances, jresult>>

\* One evaluation of the generator's loop condition with what follows it: the
\* skip, the yield, or the end of the iteration.  The caller drains the
\* iterator; the matches yielded are collected in spans.
finditerLoop ==
    /\ pc = "finditer"
    /\ LET m == Exec(frame.regex, frame.text)
       IN  IF m.found
           THEN /\ frame' =
                     IF m.lastIndex = frame.lastIndex
                     THEN [frame EXCEPT !.regex.lastIndex = m.lastIndex + 1,
                                        !.execs = @ + 1]
                     ELSE [frame EXCEPT !.regex.lastIndex = m.lastIndex,
                                        !.lastIndex = m.lastIndex,
                                        !.spans = Append(@, [index |-> m.index,
                                                             end |-> m.end]),
                                        !.execs = @ + 1]
                /\ UNCHANGED <<pc, result>>
           ELSE /\ pc' = "idle"
                /\ frame' = IdleFrame
                /\ result' = [NoResult EXCEPT !.op = "finditer", !.text = frame.text,
                                !.out = Strings(frame.text, frame.spans),
                                !.spans = frame.spans, !.execs = frame.execs + 1]
    /\ UNCHANGED <<instances, jresult>>

-----------------------------------------------------------------------------
(* CSharpRegex *)

\* str.replace(/\\(.)/g, '$1'): every backslash with a character after it
\* gives way to that character.
RECURSIVE DropBackslashes(_)
DropBackslashes(s) ==
    IF s = <<>> THEN <<>>
    ELSE IF Head(s) = "\\" /\ Len(s) >= 2
         THEN <<s[2]>> \o DropBackslashes(SubSeqFrom(s, 3))
         ELSE <<Head(s)>> \o DropBackslashes(Tail(s))

\* The constructor.  An options string is the sequence of the option names
\* written in it.
CSharpRegex(pattern, options) ==
    LET jsFlags == (IF SeqHas(options, "IgnoreCase") THEN <<"i">> ELSE <<>>)
                   \o (IF SeqHas(options, "Multiline") THEN <<"m">> ELSE <<>>)
        actualPattern == IF pattern # <<>> /\ Head(pattern) = "@"
                         THEN DropBackslashes(Tail(pattern))
                         ELSE pattern
        regex == NewRegExp(actualPattern, jsFlags)
    IN  IF regex = SyntaxError THEN NoInstance
        ELSE [regex |-> regex, options |-> options]

\* The options CSharpRegex instances are constructed with.
CsOptions == {<<>>, <<"IgnoreCase">>}

\* Matches up to the loop: the empty list and the global copy of the regex.
Matches ==
    /\ Ready /\ csharp # None /\ csharp # NoInstance
    /\ \E input \in Texts :
          /\ pc' = "Matches"
          /\ frame' = [IdleFrame EXCEPT
                          !.text = input,
                          !.regex = NewRegExp(csharp.regex.source,
                                              csharp.regex.flags \o <<"g">>)]
          /\ result' = NoResult
    /\ UNCHANGED <<instances, jresult>>

\* One evaluation of Matches' loop condition with the body or the return
\* that follows it.
MatchesLoop ==
    /\ pc = "Matches"
    /\ LET m == Exec(frame.regex, frame.text)
       IN  IF m.found
           THEN /\ frame' = [frame EXCEPT
                       !.spans = Append(@, [index |-> m.index, end |-> m.end]),
                       !.regex.lastIndex = IF m.lastIndex = m.index
                                           THEN m.lastIndex + 1 ELSE m.lastIndex,
                       !.execs = @ + 1]
                /\ UNCHANGED <<pc, result>>
           ELSE /\ pc' = "idle"
                /\ frame' = IdleFrame
                /\ result' = [NoResult EXCEPT !.op = "Matches", !.text = frame.text,
                                !.out = Strings(frame.text, frame.spans),
                                !.spans = frame.spans, !.execs = frame.execs + 1]
    /\ UNCHANGED <<instances, jresult>>

-----------------------------------------------------------------------------
(* Iterating all matches: PythonRegex.findall, finditer, CSharpRegex.Matches *)

\* new PythonRegex(p, f) or new CSharpRegex(p, o).
IterInit ==
    /\ \E p \in Patterns :
          \/ \E f \in PyFlags : python = PythonRegex(p, f) /\ csharp = None
          \/ \E o \in CsOptions : python = None /\ csharp = CSharpRegex(p, o)
    /\ java = None /\ java2 = None /\ python1 = None /\ rust = None /\ go = None
    /\ jresult = NoResult
    /\ pc = "idle" /\ frame = IdleFrame /\ result = NoResult

IterNext ==
    findall \/ findallLoop \/ finditer \/ finditerLoop \/ Matches \/ MatchesLoop

SpecIter == IterInit /\ [][IterNext]_vars

-----------------------------------------------------------------------------
(* What a pattern matches, read off its syntax *)

\* The offsets where term t can end when it starts at an offset of S.
TermEnds(t, text, S, ic) ==
    IF t.a = "^" THEN S \cap {0}
    ELSE IF t.a = "$" THEN S \cap {Len(text)}
    ELSE IF t.a = "eps" THEN S
    ELSE IF t.star
         THEN {e \in 0..Len(text) :
                 \E b \in S : b <= e /\ \A k \in (b + 1)..e : CharEq(text[k], t.a, ic)}
         ELSE {b + 1 : b \in {x \in S : x < Len(text) /\ CharEq(text[x + 1], t.a, ic)}}

\* The offsets where the terms i.. of one alternative can end.
RECURSIVE AltEnds(_, _, _, _, _)
AltEnds(ts, i, text, S, ic) ==
    IF i > Len(ts) THEN S
    ELSE AltEnds(ts, i + 1, text, TermEnds(ts[i], text, S, ic), ic)

\* The offsets e such that text[b, e) is in the language of the pattern.
Ends(re, text, b) ==
    UNION {AltEnds(re.program[j], 1, text, {b}, SeqHas(re.flags, "i"))
           : j \in 1..Len(re.program)}

\* In this text the pattern matches the empty string and nothing else.
MatchesOnlyEmpty(re, text) ==
    \A b \in 0..Len(text) : Ends(re, text, b) = {b}

\* The empty match at each boundary 0..N.
Boundaries(N) == [k \in 1..(N + 1) |-> [index |-> k - 1, end |-> k - 1]]

-----------------------------------------------------------------------------
(* Iterating all matches: the claim *)

\* The regex the instance under iteration holds.
IterRegex ==
    IF python # None THEN compileRegex(python, <<>>) ELSE csharp.regex

\* C4: iterating all matches of a pattern that matches only the empty string
\* over a text of length N terminates, within 2N+3 exec calls, and yields
\* exactly the N+1 empty matches at the boundaries 0..N, for findall, finditer
\* and Matches alike.
C4_EmptyMatchIteration ==
    /\ (pc # "idle" /\ MatchesOnlyEmpty(frame.regex, frame.text))
          => frame.execs < 2 * Len(frame.text) + 3
    /\ (result.op \in {"findall", "finditer", "Matches"} /\ ~result.threw
          /\ MatchesOnlyEmpty(IterRegex, result.text))
          => /\ result.spans = Boundaries(Len(result.text))
             /\ Len(result.out) = Len(result.text) + 1
             /\ result.execs <= 2 * Len(result.text) + 3

\* C4 witness: finditer has drained a text of two characters the pattern a*
\* finds no a in, and returned three matches.
C4_Witness ==
    /\ result.op = "finditer"
    /\ python # None /\ python.pattern = <<"a", "*">>
    /\ result.text = <<"A", "A">>
    /\ Len(result.spans) = 3

-----------------------------------------------------------------------------
(* PythonRegex: sub, split and fullmatch of Python.ts lines 157-343 *)

\* text.split(''): the characters of text, each a string.
Chars(text) == [k \in 1..Len(text) |-> <<text[k]>>]

\* sub with the empty pattern and a count: the loop over splitText from
\* index i on, replacedCount replacements made so far.
RECURSIVE subEachChar(_, _, _, _, _)
subEachChar(splitText, i, repl, count, replacedCount) ==
    IF i > Len(splitText) THEN <<>>
    ELSE IF replacedCount < count
         THEN repl \o splitText[i]
              \o subEachChar(splitText, i + 1, repl, count, replacedCount + 1)
         ELSE splitText[i]
              \o subEachChar(splitText, i + 1, repl, count, replacedCount)

\* sub with the empty pattern and no count.
subEmpty(repl, text) == repl \o Join(Chars(text), repl)

\* sub: [threw, out].
PythonSub(self, repl, text, count) ==
    IF self.pattern = <<>>
    THEN [threw |-> FALSE,
          out |-> IF count = 0 THEN subEmpty(repl, text)
                  ELSE subEachChar(Chars(text), 1, repl, count, 0)]
    ELSE LET regex == compileRegex(self, <<"g">>)
             ms    == ReplaceMatches(regex, text)
         IN  IF regex = SyntaxError THEN [threw |-> TRUE, out |-> <<>>]
             ELSE [threw |-> FALSE,
                   out |-> IF count = 0 THEN StringReplace(text, regex, repl)
                           ELSE Splice(text, ms,
                                       [n \in 1..Len(ms) |->
                                           IF n - 1 < count THEN repl
                                           ELSE Matched(text, ms[n])],
                                       1, 0)]

\* The counts sub is called with.
Counts == 0..MaxCount

\* What sub puts in.
Repl == <<"x">>

sub ==
    /\ Ready /\ python # None
    /\ \E text \in Texts, count \in Counts :
          LET r == PythonSub(python, Repl, text, count)
          IN  result' = [NoResult EXCEPT !.op = "sub", !.text = text, !.n = count,
                                         !.threw = r.threw, !.out = <<r.out>>]
    /\ UNCHANGED <<instances, jresult, pc, frame>>

\* Array.prototype.slice(a, b) for 0 <= a <= b.
Slice(arr, a, b) ==
    SubSeq(arr, a + 1, IF b < Len(arr) THEN b ELSE Len(arr))

\* split with the empty pattern.
splitEmpty(text, maxsplit) ==
    IF maxsplit = -1 THEN <<<<>>>> \o Chars(text)
    ELSE <<<<>>>> \o Slice(Chars(text), 0, maxsplit)
         \o <<Join(Slice(Chars(text), maxsplit, Len(text)), <<>>)>>

\* The values of maxsplit split is called with; -1 stands for no limit.
Limits == -1..MaxCount

\* split up to the loop; with the empty pattern, all of it.
split ==
    /\ Ready /\ python # None
    /\ \E text \in Texts, maxsplit \in Limits :
          IF python.pattern = <<>>
          THEN /\ result' = [NoResult EXCEPT !.op = "split", !.text = text,
                                !.n = maxsplit, !.out = splitEmpty(text, maxsplit)]
               /\ UNCHANGED <<pc, frame>>
          ELSE LET regex == compileRegex(python, <<"g">>)
               IN  IF regex = SyntaxError
                   THEN /\ result' = Thrown("split", text, maxsplit)
                        /\ UNCHANGED <<pc, frame>>
                   ELSE /\ pc' = "split"
                        /\ frame' = [IdleFrame EXCEPT !.text = text, !.regex = regex,
                                                      !.maxsplit = maxsplit]
                        /\ result' = NoResult
    /\ UNCHANGED <<instances, jresult>>

\* The array split returns: the last piece goes when it is empty and
\* regex.source is not.
popEmpty(pieces, regex) ==
    IF pieces[Len(pieces)].end = pieces[Len(pieces)].index /\ regex.source # <<>>
    THEN SubSeq(pieces, 1, Len(pieces) - 1) ELSE pieces

\* One evaluation of split's loop condition with the body, or with the
\* statements after the loop and the return.  The pieces are kept as their
\* offsets in the text.
splitLoop ==
    /\ pc = "split" /\ frame.execs < MaxExecs
    /\ LET rest == Substring(frame.text, frame.currentPosition, Len(frame.text))
           more == frame.maxsplit = -1 \/ frame.splits < frame.maxsplit
           m    == Exec(frame.regex, rest)
       IN  IF more /\ m.found
           THEN /\ frame' = [frame EXCEPT
                       !.spans = Append(@, [index |-> frame.currentPosition,
                                            end |-> frame.currentPosition + m.index]),
                       !.currentPosition = @ + m.index + (m.end - m.index),
                       !.splits = @ + 1,
                       !.regex.lastIndex = 0,
                       !.execs = @ + 1]
                /\ UNCHANGED <<pc, result>>
           ELSE LET pieces == popEmpty(Append(frame.spans,
                                  [index |-> frame.currentPosition,
                                   end |-> Len(frame.text)]), frame.regex)
                IN  /\ pc' = "idle"
                    /\ frame' = IdleFrame
                    /\ result' = [NoResult EXCEPT !.op = "split", !.text = frame.text,
                                    !.n = frame.maxsplit,
                                    !.out = Strings(frame.text, pieces),
                                    !.spans = pieces,
                                    !.execs = frame.execs + (IF more THEN 1 ELSE 0)]
    /\ UNCHANGED <<instances, jresult>>

\* exec's answer as a call result.
MatchResult(op, text, regex) ==
    LET m == Exec(regex, text)
    IN  IF regex = SyntaxError THEN Thrown(op, text, 0)
        ELSE [NoResult EXCEPT !.op = op, !.text = text, !.ok = m.found,
                  !.spans = IF m.found THEN <<[index |-> m.index, end |-> m.end]>>
                            ELSE <<>>,
                  !.out = IF m.found THEN <<Matched(text, m)>> ELSE <<>>]

\* fullmatch: the match array, or null.
PythonFullmatch(self, text) ==
    LET regex == compileRegex(self, <<>>)
    IN  IF regex = SyntaxError THEN Thrown("fullmatch", text, 0)
        ELSE MatchResult("fullmatch", text,
                         NewRegExp(<<"^">> \o regex.source \o <<"$">>, regex.flags))

fullmatch ==
    /\ Ready
    /\ \E text \in Texts : result' = PythonFullmatch(python, text)
    /\ UNCHANGED <<instances, jresult, pc, frame>>

-----------------------------------------------------------------------------
(* PythonRegex, the definition of Python.ts lines 1-146 *)

\* The text of s before its first c.
RECURSIVE Before(_, _)
Before(s, c) ==
    IF s = <<>> \/ Head(s) = c THEN <<>> ELSE <<Head(s)>> \o Before(Tail(s), c)

\* compile, the pattern it hands to new RegExp: with x the white space goes
\* (pattern.replace(/\s+/g, '')) and then all from the first # on
\* (pattern.replace(/#.*$/gm, ''), no line end being left for $ to stop at).
compilePattern(pattern, flags) ==
    IF SeqHas(flags, "x")
    THEN Before(RemoveAll(RemoveAll(pattern, " "), "\n"), "#")
    ELSE pattern

\* compile: the flags i, m, s pass.
compile(pattern, flags) ==
    LET jsFlags == (IF SeqHas(flags, "i") THEN <<"i">> ELSE <<>>)
                   \o (IF SeqHas(flags, "m") THEN <<"m">> ELSE <<>>)
                   \o (IF SeqHas(flags, "s") THEN <<"s">> ELSE <<>>)
    IN  NewRegExp(compilePattern(pattern, flags), jsFlags)

\* The constructor compiles the pattern.
PythonRegex1(pattern, flags) ==
    LET regex == compile(pattern, flags)
    IN  IF regex = SyntaxError THEN NoInstance
        ELSE [pattern |-> pattern, flags |-> flags, regex |-> regex]

\* fullmatch: text.match of a regex without g is exec.
PythonFullmatch1(self, text) ==
    MatchResult("fullmatch1", text,
                compile(<<"^">> \o self.pattern \o <<"$">>, self.flags))

fullmatch1 ==
    /\ Ready /\ python1 # NoInstance
    /\ \E text \in Texts : result' = PythonFullmatch1(python1, text)
    /\ UNCHANGED <<instances, jresult, pc, frame>>

\* The default of the parameter count: Infinity.
Infinity == -1

\* The clone of the instance's regex with the flag g.
regexToUse(self) ==
    NewRegExp(self.regex.source, SetAdd(self.regex.flags, "g"))

\* The loop of findall with the return after it: re.lastIndex is li.
RECURSIVE FindallLoop1(_, _, _, _, _)
FindallLoop1(re, text, li, previousLastIndex, matches) ==
    LET m == Exec([re EXCEPT !.lastIndex = li], text)
    IN  IF ~m.found THEN matches
        ELSE IF m.end = m.index /\ m.lastIndex = previousLastIndex
             THEN IF m.lastIndex + 1 > Len(text) THEN matches
                  ELSE FindallLoop1(re, text, m.lastIndex + 1, previousLastIndex,
                                    matches)
             ELSE FindallLoop1(re, text, m.lastIndex, m.lastIndex,
                               Append(matches, Matched(text, m)))

\* findall
PythonFindall1(self, text) ==
    IF text = <<>> THEN <<>>
    ELSE FindallLoop1(regexToUse(self), text, 0, -1, <<>>)

\* The loop of sub with the return after it: re.lastIndex is li.
RECURSIVE SubLoop1(_, _, _, _, _, _, _, _)
SubLoop1(re, repl, text, count, li, currentIndex, replacedCount, acc) ==
    LET m == Exec([re EXCEPT !.lastIndex = li], text)
    IN  IF (count = Infinity \/ replacedCount < count) /\ m.found
        THEN LET next == acc \o Substring(text, currentIndex, m.index) \o repl
             IN  IF m.end = m.index /\ m.lastIndex + 1 > Len(text)
                 THEN next \o Substring(text, m.end, Len(text))
                 ELSE SubLoop1(re, repl, text, count,
                               IF m.end = m.index THEN m.lastIndex + 1
                               ELSE m.lastIndex,
                               m.end, replacedCount + 1, next)
        ELSE acc \o Substring(text, currentIndex, Len(text))

\* sub: text.replace with a counting callback for a regex without g and a
\* finite count, else the loop over the clone.
PythonSub1(self, repl, text, count) ==
    IF ~IsGlobal(self.regex) /\ count # Infinity
    THEN LET ms == ReplaceMatches(self.regex, text)
         IN  Splice(text, ms,
                    [k \in 1..Len(ms) |->
                        IF k <= count THEN repl ELSE Matched(text, ms[k])],
                    1, 0)
    ELSE SubLoop1(regexToUse(self), repl, text, count, 0, 0, 0, <<>>)

\* subn: [newText, replacedCount]
PythonSubn1(self, repl, text, count) ==
    [newText |-> PythonSub1(self, repl, text, count),
     replacedCount |->
         IF count = Infinity THEN Len(PythonFindall1(self, text))
         ELSE Min(count, Len(PythonFindall1(self, text)))]

\* The counts subn is called with.
Counts1 == {Infinity} \cup Counts

subn ==
    /\ Ready /\ python1 # NoInstance
    /\ \E text \in Texts, count \in Counts1 :
          LET r == PythonSubn1(python1, Repl, text, count)
          IN  result' = [NoResult EXCEPT !.op = "subn", !.text = text, !.n = count,
                                         !.out = <<r.newText>>,
                                         !.count = r.replacedCount]
    /\ UNCHANGED <<instances, jresult, pc, frame>>

-----------------------------------------------------------------------------
(* PythonRegex: the specification *)

\* new PythonRegex(p, f), by either definition of the class.
PythonInit ==
    /\ \E p \in Patterns, f \in PyFlags :
          python = PythonRegex(p, f) /\ python1 = PythonRegex1(p, f)
    /\ java = None /\ java2 = None /\ csharp = None /\ rust = None /\ go = None
    /\ jresult = NoResult
    /\ pc = "idle" /\ frame = IdleFrame /\ result = NoResult

PythonNext == sub \/ split \/ splitLoop \/ fullmatch \/ fullmatch1

SpecPython == PythonInit /\ [][PythonNext]_vars

\* The calls on the definition of Python.ts lines 1-146.
Python1Next == fullmatch1 \/ subn

SpecPython1 == PythonInit /\ [][Python1Next]_vars

-----------------------------------------------------------------------------
(* PythonRegex: the claims on sub, split and fullmatch *)

\* The matches of the instance's pattern in the text of the last call,
\* leftmost first, none overlapping.
PyMatches == GlobalMatches(compileRegex(python, <<"g">>), result.text, 0)

\* The text with the first k of the matches ms replaced, all of them for
\* k = 0, everything else copied.
FirstReplaced(text, ms, repl, k) ==
    Splice(text, ms,
           [n \in 1..Len(ms) |-> IF k = 0 \/ n <= k THEN repl
                                 ELSE Matched(text, ms[n])],
           1, 0)

\* C5: sub with count 0 replaces every match; with count k > 0 it replaces
\* exactly the first min(k, number of matches) matches and copies every later
\* match and all other text in order.
C5_SubCount ==
    (result.op = "sub" /\ ~result.threw)
        => result.out = <<FirstReplaced(result.text, PyMatches, Repl, result.n)>>

\* repl at every boundary of the text from character i on.
RECURSIVE AtEveryBoundary(_, _, _)
AtEveryBoundary(repl, text, i) ==
    IF i > Len(text) THEN repl
    ELSE repl \o <<text[i]>> \o AtEveryBoundary(repl, text, i + 1)

\* C6: sub with the empty pattern and no count puts the replacement at every
\* boundary of the text, both ends included: N+1 copies for a text of length N.
C6_SubEmptyPattern ==
    (result.op = "sub" /\ python.pattern = <<>> /\ result.n = 0)
        => result.out = <<AtEveryBoundary(Repl, result.text, 1)>>

\* The text cut at the matches n..k of ms, the text before offset pos already
\* cut off: the pieces between the matches, then the remainder.
RECURSIVE Cut(_, _, _, _, _)
Cut(text, ms, n, k, pos) ==
    IF n > k THEN <<Substring(text, pos, Len(text))>>
    ELSE <<Substring(text, pos, ms[n].index)>> \o Cut(text, ms, n + 1, k, ms[n].end)

\* C7: split(text, L) with L > 0 splits at the leftmost min(L, number of
\* matches) matches, returns at most L+1 pieces, the last of them the unsplit
\* remainder; with L = 0 it returns the text as the only element.
C7_SplitLimit ==
    (result.op = "split" /\ ~result.threw /\ result.n >= 0)
        => IF result.n = 0 THEN result.out = <<result.text>>
           ELSE /\ Len(result.out) <= result.n + 1
                /\ result.out = Cut(result.text, PyMatches, 1,
                                    Min(result.n, Len(PyMatches)), 0)

\* C10: fullmatch returns a match iff the whole text is in the language of
\* the pattern, whatever the pattern and the flags, by either definition.
C10_Fullmatch ==
    (result.op \in {"fullmatch", "fullmatch1"} /\ ~result.threw)
        => (result.ok <=>
               Len(result.text) \in Ends(compileRegex(python, <<>>), result.text, 0))

-----------------------------------------------------------------------------
(* CSharpRegex.Escape and CSharpRegex.Unescape *)

\* The character class [-/\\^$*+?.()|[\]{}] both methods are written with.
MetaChars ==
    {"-", "/", "\\", "^", "$", "*", "+", "?", ".", "(", ")", "|", "[", "]", "{", "}"}

\* Escape, had its character class no backslash in it.
RECURSIVE EscapeButBackslash(_)
EscapeButBackslash(input) ==
    IF input = <<>> THEN <<>>
    ELSE (IF Head(input) \in MetaChars \ {"\\"}
          THEN <<"\\", Head(input)>> ELSE <<Head(input)>>)
         \o EscapeButBackslash(Tail(input))

\* Escape: every character of the class with a backslash put before it.
RECURSIVE Escape(_)
Escape(input) ==
    IF input = <<>> THEN <<>>
    ELSE (IF Head(input) \in MetaChars
          THEN <<"\\", Head(input)>> ELSE <<Head(input)>>)
         \o Escape(Tail(input))

\* Unescape: left to right, a backslash with a character of the class after
\* it gives way to that character; the pair is consumed.
RECURSIVE Unescape(_)
Unescape(input) ==
    IF input = <<>> THEN <<>>
    ELSE IF Head(input) = "\\" /\ Len(input) >= 2 /\ input[2] \in MetaChars
         THEN <<input[2]>> \o Unescape(SubSeqFrom(input, 3))
         ELSE <<Head(input)>> \o Unescape(Tail(input))

\* The characters of the strings escaped: a plain one and metacharacters, the
\* backslash among them.
EscapeChars == {"a", "\\", ".", "-", "]"}

EscapeInputs == UNION {[1..n -> EscapeChars] : n \in 0..MaxEscapeLen}

\* The string S the caller holds.
EscapeInit ==
    /\ \E S \in EscapeInputs : frame = [IdleFrame EXCEPT !.text = S]
    /\ java = None /\ java2 = None /\ python = None /\ python1 = None
    /\ csharp = None /\ rust = None /\ go = None
    /\ jresult = NoResult
    /\ pc = "idle" /\ result = NoResult

\* CSharpRegex.Escape(S)
EscapeCall ==
    /\ result.op = "none"
    /\ result' = [NoResult EXCEPT !.op = "Escape", !.text = frame.text,
                                  !.out = <<Escape(frame.text)>>]
    /\ UNCHANGED <<instances, jresult, pc, frame>>

\* CSharpRegex.Unescape of what Escape returned.
UnescapeCall ==
    /\ result.op = "Escape"
    /\ result' = [NoResult EXCEPT !.op = "Unescape", !.text = result.out[1],
                                  !.out = <<Unescape(result.out[1])>>]
    /\ UNCHANGED <<instances, jresult, pc, frame>>

EscapeNext == EscapeCall \/ UnescapeCall

SpecEscape == EscapeInit /\ [][EscapeNext]_vars

\* C8: Unescape(Escape(S)) = S for every S of plain characters and
\* metacharacters, backslashes and runs of metacharacters included.
C8_EscapeRoundTrip ==
    result.op = "Unescape" => result.out = <<frame.text>>

\* C8 witness: a string of two backslashes and a dot went through Escape, which
\* doubled its length, and through Unescape.
C8_Witness ==
    /\ result.op = "Unescape"
    /\ frame.text = <<"\\", "\\", ".">>
    /\ Len(result.text) = 6

-----------------------------------------------------------------------------
(* RustRegex *)

\* The constructor: the flag u is added when it is not given.
RustRegex(pattern, flags) ==
    LET effectiveFlags == IF SeqHas(flags, "u") THEN flags ELSE flags \o <<"u">>
        regex == NewRegExp(pattern, effectiveFlags)
    IN  IF regex = SyntaxError THEN NoInstance
        ELSE [regex |-> regex, unicode |-> SeqHas(effectiveFlags, "u")]

\* The flags RustRegex instances are constructed with.
RustFlags == {<<>>, <<"i">>, <<"g">>}

\* new RustRegex(p, f)
\* The named group (?<name>c).
Group(name, c) == <<"(", "?", "<", name, ">", c, ")">>

\* The patterns with named groups: a group n around a, after nothing, a or
\* a*, before nothing, a or the alternative (?<m>A).
NamedPatterns ==
    {pre \o Group("n", "a") \o post :
        pre \in {<<>>, <<"a">>, <<"a", "*">>},
        post \in {<<>>, <<"a">>, <<"|">> \o Group("m", "A")}}

RustInit ==
    /\ \E p \in Patterns \cup NamedPatterns, f \in RustFlags : rust = RustRegex(p, f)
    /\ java = None /\ java2 = None /\ python = None /\ python1 = None
    /\ csharp = None /\ go = None
    /\ jresult = NoResult
    /\ pc = "idle" /\ frame = IdleFrame /\ result = NoResult

\* isMatch: regex.test(text), which is exec on the instance's regex.
isMatch ==
    /\ pc = "idle" /\ rust # NoInstance
    /\ \E text \in Texts :
          LET m == Exec(rust.regex, text)
          IN  /\ result' = [NoResult EXCEPT !.op = "isMatch", !.text = text,
                                            !.ok = m.found]
              /\ rust' = [rust EXCEPT !.regex.lastIndex = m.lastIndex]
    /\ UNCHANGED <<java, java2, python, python1, csharp, go, jresult, pc, frame>>

\* isMatchFull: exec on the instance's regex, then the test of the span.
isMatchFull ==
    /\ pc = "idle" /\ rust # NoInstance
    /\ \E text \in Texts :
          LET m == Exec(rust.regex, text)
          IN  /\ result' = [NoResult EXCEPT !.op = "isMatchFull", !.text = text,
                              !.ok = (m.found /\ m.index = 0
                                      /\ m.end - m.index = Len(text))]
              /\ rust' = [rust EXCEPT !.regex.lastIndex = m.lastIndex]
    /\ UNCHANGED <<java, java2, python, python1, csharp, go, jresult, pc, frame>>

\* What a replacement callback returns.
FuncRepl == <<"y">>

\* text.replace(regex, ...) leaves a global regex at lastIndex 0 and any
\* other regex as it was.
AfterReplace(regex) ==
    IF IsGlobal(regex) THEN [regex EXCEPT !.lastIndex = 0] ELSE regex

\* replaceOne: [out, calls], calls the number of times the caller's callback
\* ran.  A string goes to text.replace as it is; a callback is wrapped so
\* that only the first invocation reaches it.
RustReplaceOne(self, text, callback) ==
    LET ms == ReplaceMatches(self.regex, text)
    IN  IF ~callback
        THEN [out |-> StringReplace(text, self.regex, Repl), calls |-> 0]
        ELSE [out |-> Splice(text, ms,
                             [n \in 1..Len(ms) |->
                                 IF n = 1 THEN FuncRepl ELSE Matched(text, ms[n])],
                             1, 0),
              calls |-> IF ms = <<>> THEN 0 ELSE 1]

replaceOne ==
    /\ pc = "idle" /\ rust # NoInstance
    /\ \E text \in Texts, callback \in BOOLEAN :
          LET r == RustReplaceOne(rust, text, callback)
          IN  /\ result' = [NoResult EXCEPT
                              !.op = IF callback THEN "replaceOneFunc" ELSE "replaceOne",
                              !.text = text, !.out = <<r.out>>, !.n = r.calls]
              /\ rust' = [rust EXCEPT !.regex = AfterReplace(@)]
    /\ UNCHANGED <<java, java2, python, python1, csharp, go, jresult, pc, frame>>

\* s.replace(c, ''): s without its first c.
RECURSIVE RemoveFirst(_, _)
RemoveFirst(s, c) ==
    IF s = <<>> THEN <<>>
    ELSE IF Head(s) = c THEN Tail(s)
    ELSE <<Head(s)>> \o RemoveFirst(Tail(s), c)

\* caseInsensitive had it rebuilt the receiver's own regex.
CaseInsensitiveInPlace(self, enabled) ==
    LET flags == RemoveFirst(self.regex.flags, "i")
                 \o (IF enabled THEN <<"i">> ELSE <<>>)
    IN  [receiver |-> RustRegex(self.regex.source, flags),
         returned |-> RustRegex(self.regex.source, flags)]

\* caseInsensitive: the receiver after the call and the instance returned.
CaseInsensitive(self, enabled) ==
    LET flags == RemoveFirst(self.regex.flags, "i")
                 \o (IF enabled THEN <<"i">> ELSE <<>>)
    IN  [receiver |-> self, returned |-> RustRegex(self.regex.source, flags)]

\* The call, with pattern() and flags() of the instance it returned.
caseInsensitive ==
    /\ pc = "idle" /\ rust # NoInstance
    /\ \E enabled \in BOOLEAN :
          LET r == CaseInsensitive(rust, enabled)
          IN  /\ rust' = r.receiver
              /\ result' = [NoResult EXCEPT
                               !.op = "caseInsensitive", !.ok = enabled,
                               !.out = <<r.returned.regex.source,
                                         r.returned.regex.flags>>]
    /\ UNCHANGED <<java, java2, python, python1, csharp, go, jresult, pc, frame>>

\* The characters of [a-zA-Z_][a-zA-Z0-9_]* among those patterns are written in.
IdentChars == {"a", "b", "A", "B", "n", "m", "_"}

\* How many characters of s from index k on are identifier characters.
RECURSIVE IdentRun(_, _)
IdentRun(s, k) ==
    IF k <= Len(s) /\ s[k] \in IdentChars THEN 1 + IdentRun(s, k + 1) ELSE 0

\* /\(\?<([a-zA-Z_][a-zA-Z0-9_]*)>/.exec(s) from index k on: the sequence
\* holding nameMatch[1], or the empty sequence for null.
RECURSIVE NameMatch(_, _)
NameMatch(s, k) ==
    IF k + 4 > Len(s) THEN <<>>
    ELSE IF /\ SubSeq(s, k, k + 2) = <<"(", "?", "<">>
            /\ IdentRun(s, k + 3) >= 1
            /\ k + 3 + IdentRun(s, k + 3) <= Len(s)
            /\ s[k + 3 + IdentRun(s, k + 3)] = ">"
         THEN <<SubSeq(s, k + 3, k + 2 + IdentRun(s, k + 3))>>
         ELSE NameMatch(s, k + 1)

\* The body of namedCaptures' loop: names after match2.
NamesAfter(names, matched) ==
    IF Len(matched) >= 3 /\ SubSeq(matched, 1, 3) = <<"(", "?", "<">>
    THEN names \o NameMatch(matched, 1)
    ELSE names

\* namedCaptures up to the loop: the match, the early return of null, the
\* regex recreated.
namedCaptures ==
    /\ pc = "idle" /\ rust # NoInstance
    /\ \E text \in Texts :
          LET m == Exec(rust.regex, text)
          IN  /\ rust' = [rust EXCEPT !.regex.lastIndex = m.lastIndex]
              /\ IF ~m.found \/ ~Includes(rust.regex.source, <<"?", "<">>)
                 THEN /\ result' = [NoResult EXCEPT !.op = "namedCaptures",
                                       !.text = text, !.from = rust.regex.lastIndex,
                                       !.ok = FALSE, !.execs = 1]
                      /\ UNCHANGED <<pc, frame>>
                 ELSE /\ pc' = "namedCaptures"
                      /\ frame' = [IdleFrame EXCEPT
                                      !.text = text,
                                      !.regex = NewRegExp(rust.regex.source,
                                                          rust.regex.flags),
                                      !.spans = <<[index |-> m.index, end |-> m.end]>>,
                                      !.from = rust.regex.lastIndex]
                      /\ result' = NoResult
    /\ UNCHANGED <<java, java2, python, python1, csharp, go, jresult>>

\* One evaluation of the loop condition, namedRegex.exec(namedRegex.source),
\* with the body or, after the loop, the mapping built and returned: the
\* names in arg, their values in out.
namedCapturesLoop ==
    /\ pc = "namedCaptures"
    /\ frame.execs < MaxExecs
    /\ LET match2 == Exec(frame.regex, frame.regex.source)
           groups == Captures(rust.regex, frame.text, frame.spans[1].index)
       IN  IF match2.found
           THEN /\ frame' = [frame EXCEPT
                                !.regex.lastIndex = match2.lastIndex,
                                !.names = NamesAfter(@, Matched(frame.regex.source, match2)),
                                !.execs = @ + 1]
                /\ UNCHANGED <<pc, result>>
           ELSE /\ pc' = "idle"
                /\ frame' = IdleFrame
                /\ result' = [NoResult EXCEPT
                                 !.op = "namedCaptures", !.text = frame.text,
                                 !.from = frame.from, !.ok = TRUE,
                                 !.arg = frame.names,
                                 !.out = [i \in 1..Len(frame.names) |->
                                             IF i <= Len(groups) THEN groups[i]
                                             ELSE Undefined],
                                 !.execs = frame.execs + 2]
    /\ UNCHANGED <<instances, jresult>>

RustNext ==
    \/ isMatch \/ isMatchFull \/ replaceOne \/ caseInsensitive
    \/ namedCaptures \/ namedCapturesLoop

SpecRust == RustInit /\ [][RustNext]_vars

\* The calls that read or rebuild the flags, with isMatch to move lastIndex.
RustFlagsNext == isMatch \/ caseInsensitive

SpecRustFlags == RustInit /\ [][RustFlagsNext]_vars

\* C9: isMatchFull(text) is true iff some match of the pattern starts at
\* offset 0 and ends at text.length, which is what testing the pattern
\* anchored at both ends gives, for every pattern and text.
C9_IsMatchFull ==
    result.op = "isMatchFull"
        => (result.ok <=> Len(result.text) \in Ends(rust.regex, result.text, 0))

-----------------------------------------------------------------------------
(* Splitting with a limit: RustRegex.split and CSharpRegex.Split *)

\* RustRegex.split had its limit counted the cuts, not the pieces.
RustSplitByCuts(self, text, limit) ==
    StringSplit(text, self.regex, IF limit < 0 THEN limit ELSE limit + 1)

\* RustRegex.split, limit = -1 for a call without one.
RustSplit(self, text, limit) == StringSplit(text, self.regex, limit)

\* CSharpRegex.Split
CSharpSplit(self, input, count, startat) ==
    LET all == StringSplit(Substring(input, Min(startat, Len(input)), Len(input)),
                           self.regex, -1)
    IN  IF count > -1 /\ Len(all) > count THEN SubSeq(all, 1, count) ELSE all

rustSplit ==
    /\ Ready /\ rust # None /\ rust # NoInstance
    /\ \E text \in Texts, limit \in Limits :
          result' = [NoResult EXCEPT !.op = "RustRegex.split", !.text = text,
                                     !.n = limit, !.out = RustSplit(rust, text, limit)]
    /\ UNCHANGED <<instances, jresult, pc, frame>>

Split ==
    /\ Ready /\ csharp # None /\ csharp # NoInstance
    /\ \E input \in Texts, count \in Limits :
          result' = [NoResult EXCEPT !.op = "CSharpRegex.Split", !.text = input,
                                     !.n = count,
                                     !.out = CSharpSplit(csharp, input, count, 0)]
    /\ UNCHANGED <<instances, jresult, pc, frame>>

\* new RustRegex(p, f) or new CSharpRegex(p, o).
SplitInit ==
    /\ \E p \in Patterns :
          \/ \E f \in RustFlags : rust = RustRegex(p, f) /\ csharp = None
          \/ \E o \in CsOptions : rust = None /\ csharp = CSharpRegex(p, o)
    /\ java = None /\ java2 = None /\ python = None /\ python1 = None /\ go = None
    /\ jresult = NoResult
    /\ pc = "idle" /\ frame = IdleFrame /\ result = NoResult

SplitNext == rustSplit \/ Split

SpecSplit == SplitInit /\ [][SplitNext]_vars

-----------------------------------------------------------------------------
(* GoRegex: construction *)

\* The pattern the constructor keeps: without its first and last character
\* when it starts with a backtick and ends with one.
RawString(pattern) ==
    IF pattern # <<>> /\ Head(pattern) = Backtick /\ pattern[Len(pattern)] = Backtick
    THEN SubSeq(pattern, 2, Len(pattern) - 1)
    ELSE pattern

\* new GoRegex(pattern, flags)
GoRegex(pattern, flags) ==
    LET re == NewRegExp(RawString(pattern), flags)
    IN  IF re = SyntaxError THEN NoInstance
        ELSE [originalPattern |-> RawString(pattern), flags |-> flags, re |-> re]

\* The message of what new GoRegex(pattern, flags) throws.
GoRegexError(pattern, flags) == ErrorMessage(RawString(pattern), flags)

\* new GoRegex(pattern, flags) as a call: what it throws or returns.
GoNew(pattern, flags) ==
    [threw |-> GoRegex(pattern, flags) = NoInstance,
     message |-> IF GoRegex(pattern, flags) = NoInstance
                 THEN GoRegexError(pattern, flags) ELSE <<>>,
     instance |-> GoRegex(pattern, flags)]

\* GoRegex.compile: the instance, or the constructor's error wrapped.
GoCompile(pattern, flags) ==
    IF GoRegex(pattern, flags) = NoInstance
    THEN [threw |-> TRUE,
          message |-> <<"Invalid regular expression: ">> \o GoRegexError(pattern, flags),
          instance |-> NoInstance]
    ELSE [threw |-> FALSE, message |-> <<>>, instance |-> GoRegex(pattern, flags)]

\* mustCompile had it called the constructor itself.
GoMustCompileUnwrapped(pattern, flags) == GoNew(pattern, flags)

\* GoRegex.mustCompile
GoMustCompile(pattern, flags) == GoCompile(pattern, flags)

\* The characters GoRegex patterns are written in.
GoPatChars == {"a", "*", Backtick}

GoPatterns == UNION {[1..n -> GoPatChars] : n \in 0..MaxPatLen}

\* The flags GoRegex instances are constructed with.
GoFlags == {<<>>, <<"g">>, <<"i">>}

\* What a construction left behind: the instance in go, the call in result.
Constructed(op, pattern, flags, r) ==
    /\ go' = r.instance
    /\ result' = [NoResult EXCEPT !.op = op, !.text = pattern, !.arg = flags,
                                  !.threw = r.threw, !.out = r.message]
    /\ UNCHANGED <<java, java2, python, python1, csharp, rust, jresult, pc, frame>>

NewCall ==
    /\ go = None
    /\ \E pattern \in GoPatterns, flags \in GoFlags :
          Constructed("new", pattern, flags, GoNew(pattern, flags))

CompileCall ==
    /\ go = None
    /\ \E pattern \in GoPatterns, flags \in GoFlags :
          Constructed("compile", pattern, flags, GoCompile(pattern, flags))

MustCompileCall ==
    /\ go = None
    /\ \E pattern \in GoPatterns, flags \in GoFlags :
          Constructed("mustCompile", pattern, flags, GoMustCompile(pattern, flags))

\* No GoRegex yet.
GoNewInit ==
    /\ go = None
    /\ java = None /\ java2 = None /\ python = None /\ python1 = None
    /\ csharp = None /\ rust = None
    /\ jresult = NoResult
    /\ pc = "idle" /\ frame = IdleFrame /\ result = NoResult

GoNewNext == NewCall \/ CompileCall \/ MustCompileCall

SpecGoNew == GoNewInit /\ [][GoNewNext]_vars

-----------------------------------------------------------------------------
(* GoRegex: the methods *)

\* What a replacer function returns for a m.
Replacer(m) == <<"<">> \o m \o <<">">>

\* The parameter n of findAllString and split: up to one more than MaxCount,
\* for split's loop to run MaxCount times.
GoLimits == -1..(MaxCount + 1)

\* A constructed GoRegex.
GoInit ==
    /\ \E p \in Patterns, f \in GoFlags : go = GoRegex(p, f)
    /\ go # NoInstance
    /\ java = None /\ java2 = None /\ python = None /\ python1 = None
    /\ csharp = None /\ rust = None
    /\ jresult = NoResult
    /\ pc = "idle" /\ frame = IdleFrame /\ result = NoResult

\* findAllString up to the loop.
findAllString ==
    /\ pc = "idle"
    /\ \E str \in Texts, n \in GoLimits :
          /\ pc' = "findAllString"
          /\ frame' = [IdleFrame EXCEPT !.text = str, !.n = n,
                                        !.from = go.re.lastIndex]
          /\ result' = NoResult
    /\ UNCHANGED <<instances, jresult>>

\* One evaluation of findAllString's loop condition, with the body or the
\* return that follows it.
findAllStringLoop ==
    /\ pc = "findAllString"
    /\ frame.execs < MaxExecs
    /\ LET m       == Exec(go.re, frame.text)
           spans   == Append(frame.spans, [index |-> m.index, end |-> m.end])
           Return(found) ==
               /\ pc' = "idle"
               /\ frame' = IdleFrame
               /\ result' = [NoResult EXCEPT
                                !.op = "findAllString", !.text = frame.text,
                                !.n = frame.n, !.from = frame.from,
                                !.out = Strings(frame.text, found),
                                !.spans = found, !.execs = frame.execs + 1]
       IN  /\ go' = [go EXCEPT !.re.lastIndex = m.lastIndex]
           /\ IF m.found /\ (frame.n = -1 \/ frame.count < frame.n)
              THEN IF ~IsGlobal(go.re)
                   THEN Return(spans)
                   ELSE /\ frame' = [frame EXCEPT !.spans = spans, !.count = @ + 1,
                                                  !.execs = @ + 1]
                        /\ UNCHANGED <<pc, result>>
              ELSE Return(frame.spans)
    /\ UNCHANGED <<java, java2, python, python1, csharp, rust, jresult>>

\* replaceAllString
replaceAllString ==
    /\ pc = "idle"
    /\ \E str \in Texts :
          result' = [NoResult EXCEPT !.op = "replaceAllString", !.text = str,
                                     !.from = go.re.lastIndex,
                                     !.out = <<StringReplace(str, go.re, Repl)>>]
    /\ go' = [go EXCEPT !.re = AfterReplace(@)]
    /\ UNCHANGED <<java, java2, python, python1, csharp, rust, jresult, pc, frame>>

\* str.replace(re, replacerFunc)
ReplaceFunc(str, re) ==
    LET ms == ReplaceMatches(re, str)
    IN  Splice(str, ms, [k \in 1..Len(ms) |-> Replacer(Matched(str, ms[k]))], 1, 0)

\* replaceAllStringFunc
replaceAllStringFunc ==
    /\ pc = "idle"
    /\ \E str \in Texts :
          result' = [NoResult EXCEPT !.op = "replaceAllStringFunc", !.text = str,
                                     !.from = go.re.lastIndex,
                                     !.out = <<ReplaceFunc(str, go.re)>>]
    /\ go' = [go EXCEPT !.re = AfterReplace(@)]
    /\ UNCHANGED <<java, java2, python, python1, csharp, rust, jresult, pc, frame>>

\* The loop of split with what follows it: the pieces returned and the
\* lastIndex the exec calls leave in re.
RECURSIVE GoSplitLoop(_, _, _, _, _)
GoSplitLoop(re, currentString, count, n, pieces) ==
    LET m == Exec(re, currentString)
    IN  IF m.found /\ count < n - 1
        THEN GoSplitLoop([re EXCEPT !.lastIndex = m.lastIndex],
                         Substring(currentString, m.end, Len(currentString)),
                         count + 1, n,
                         Append(pieces, Substring(currentString, 0, m.index)))
        ELSE [out |-> Append(pieces, currentString), lastIndex |-> m.lastIndex]

\* GoRegex.split: [out, lastIndex]
GoSplit(self, str, n) ==
    IF n = -1
    THEN [out |-> StringSplit(str, self.re, -1), lastIndex |-> self.re.lastIndex]
    ELSE GoSplitLoop(self.re, str, 0, n, <<>>)

goSplit ==
    /\ pc = "idle"
    /\ \E str \in Texts, n \in GoLimits :
          LET r == GoSplit(go, str, n)
          IN  /\ result' = [NoResult EXCEPT !.op = "split", !.text = str, !.n = n,
                                            !.from = go.re.lastIndex, !.out = r.out]
              /\ go' = [go EXCEPT !.re.lastIndex = r.lastIndex]
    /\ UNCHANGED <<java, java2, python, python1, csharp, rust, jresult, pc, frame>>

GoNext ==
    \/ findAllString \/ findAllStringLoop
    \/ replaceAllString \/ replaceAllStringFunc
    \/ goSplit

SpecGo == GoInit /\ [][GoNext]_vars

\* The matches of the instance's pattern in the text, in scan order.
RustMatches(text) ==
    GlobalMatches(NewRegExp(rust.regex.source, SetAdd(rust.regex.flags, "g")), text, 0)

\* The text with the first of the matches ms replaced by repl.
FirstOnly(text, ms, repl) ==
    IF ms = <<>> THEN text
    ELSE Substring(text, 0, ms[1].index) \o repl
         \o Substring(text, ms[1].end, Len(text))

\* C11: replaceOne replaces exactly the first match in scan order and copies
\* every later match, for a string and for a callback replacement and for
\* every flag string; the callback runs for the first match only.
C11_ReplaceOne ==
    /\ result.op = "replaceOne"
          => result.out = <<FirstOnly(result.text, RustMatches(result.text), Repl)>>
    /\ result.op = "replaceOneFunc"
          => /\ result.out = <<FirstOnly(result.text, RustMatches(result.text), FuncRepl)>>
             /\ result.n <= 1

\* The pattern is wrapped in a pair of backticks.
Wrapped(pattern) ==
    Len(pattern) >= 2 /\ Head(pattern) = Backtick /\ pattern[Len(pattern)] = Backtick

\* C16: construction strips the framing only from a pattern wrapped in a pair
\* of backticks and keeps the interior; every other pattern (a backtick at
\* one end only, a lone backtick, no backtick) is kept as given.
C16_RawString ==
    (result.op \in {"new", "compile", "mustCompile"} /\ ~result.threw)
       => go.originalPattern =
             IF Wrapped(result.text)
             THEN SubSeq(result.text, 2, Len(result.text) - 1)
             ELSE result.text

\* C17: compile and mustCompile throw 'Invalid regular expression: ' followed
\* by the primitive's message, and return no instance, for a pattern the
\* primitive rejects; for any other they return what new GoRegex returns.
C17_Compile ==
    result.op \in {"compile", "mustCompile"}
       => IF NewRegExp(RawString(result.text), result.arg) = SyntaxError
          THEN /\ result.threw
               /\ go = NoInstance
               /\ result.out = <<"Invalid regular expression: ">>
                                \o ErrorMessage(RawString(result.text), result.arg)
          ELSE /\ ~result.threw
               /\ go = GoRegex(result.text, result.arg)

\* C17 witness: mustCompile threw for a raw string whose interior the
\* primitive rejects.
C17_Witness ==
    /\ result.op = "mustCompile" /\ result.threw
    /\ Wrapped(result.text)

\* The matches of the GoRegex pattern in the text, in scan order.
GoMatches(text) ==
    GlobalMatches(NewRegExp(go.re.source, SetAdd(go.re.flags, "g")), text, 0)

\* C12: replaceAllString and replaceAllStringFunc replace every match, left
\* to right, whatever the flags; with no match the input comes back.
C12_ReplaceAll ==
    LET ms == GoMatches(result.text)
    IN  /\ result.op = "replaceAllString"
              => result.out = <<Splice(result.text, ms,
                                       [k \in 1..Len(ms) |-> Repl], 1, 0)>>
        /\ result.op = "replaceAllStringFunc"
              => result.out = <<Splice(result.text, ms,
                                       [k \in 1..Len(ms) |->
                                           Replacer(Matched(result.text, ms[k]))],
                                       1, 0)>>

\* The first k of ms, all of them when there are fewer.
FirstOf(ms, k) == SubSeq(ms, 1, Min(k, Len(ms)))

\* C13: findAllString on a fresh instance returns the matches in scan order,
\* all of them for n = -1 and the first min(n, number of matches) for n >= 0;
\* without the flag g at most the first match; no match gives [].
C13_FindAllString ==
    (result.op = "findAllString" /\ result.from = 0)
       => LET ms == GoMatches(result.text)
              k  == IF result.n = -1 THEN Len(ms) ELSE result.n
          IN  result.out = Strings(result.text,
                                   FirstOf(ms, IF IsGlobal(go.re) THEN k ELSE Min(k, 1)))

\* The pieces of text between the matches ms, from offset pos on, with the
\* rest of the text last.
RECURSIVE PiecesBetween(_, _, _)
PiecesBetween(text, ms, pos) ==
    IF ms = <<>> THEN <<Substring(text, pos, Len(text))>>
    ELSE <<Substring(text, pos, Head(ms).index)>>
         \o PiecesBetween(text, Tail(ms), Head(ms).end)

\* C14: split with n = -1 splits on every match; with n > 0 it cuts at the
\* leftmost n - 1 successive matches and the last piece is the rest of str,
\* so there are at most n pieces; whatever the flags.
C14_GoSplit ==
    /\ (result.op = "split" /\ result.n = -1)
          => result.out = StringSplit(result.text,
                                      NewRegExp(go.re.source, go.re.flags), -1)
    /\ (result.op = "split" /\ result.n > 0)
          => /\ Len(result.out) <= result.n
             /\ result.out = PiecesBetween(result.text,
                                 FirstOf(GoMatches(result.text), result.n - 1), 0)

\* The split of the text without a limit, by the method of the instance the
\* call was made on.
Unlimited(text) ==
    IF rust # None THEN RustSplit(rust, text, -1)
    ELSE CSharpSplit(csharp, text, -1, 0)

C18_CaseInsensitive ==
    [][result'.op = "caseInsensitive"
          => /\ rust' = rust
             /\ result'.out[1] = rust.regex.source
             /\ SeqHas(result'.out[2], "i") <=> result'.ok
             /\ \A c \in {"d", "g", "m", "s", "u", "v", "y"} :
                   SeqHas(result'.out[2], c) <=> SeqHas(rust.regex.flags, c)]_vars

\* C18 witness: caseInsensitive(true) was called on an instance without 'i'
\* that an earlier call left at a lastIndex other than 0.
C18_Witness ==
    /\ result.op = "caseInsensitive" /\ result.ok
    /\ ~SeqHas(rust.regex.flags, "i") /\ SeqHas(result.out[2], "i")
    /\ rust.regex.lastIndex > 0

\* The group names the pattern declares, in order.
DeclaredNames(re) ==
    LET ts == Join(re.program, <<>>)
        gs == SelectSeq(ts, LAMBDA t : t.name # "")
    IN  [k \in 1..Len(gs) |-> <<gs[k].name>>]

\* C19: namedCaptures returns null iff the pattern declares no named group
\* or there is no match; otherwise the mapping has an entry for every
\* declared name, bound to what that group captured (undefined for a group
\* that took no part in the match).
C19_NamedCaptures ==
    result.op = "namedCaptures"
       => LET re     == [rust.regex EXCEPT !.lastIndex = result.from]
              m      == Exec(re, result.text)
              names  == DeclaredNames(re)
              groups == Captures(re, result.text, m.index)
          IN  /\ ~result.ok <=> (names = <<>> \/ ~m.found)
              /\ result.ok
                    => \A k \in 1..Len(names) :
                          \E i \in 1..Len(result.arg) :
                             result.arg[i] = names[k] /\ result.out[i] = groups[k]

\* How many of the characters of s are c.
Occurrences(s, c) == Len(SelectSeq(s, LAMBDA d : d = c))

\* C20: subn returns [newText, k] with newText what sub returns and k the
\* number of replacements made in newText: the texts hold no x, so every x
\* of newText is one replacement by the repl x.
C20_Subn ==
    result.op = "subn"
       => /\ result.out = <<PythonSub1(python1, Repl, result.text, result.n)>>
          /\ result.count = Occurrences(result.out[1], "x")

-----------------------------------------------------------------------------
(* Rejected patterns *)

\* C21: a pattern the RegExp constructor rejects makes the wrapper's
\* constructor throw, so every instance there is holds a pattern RegExp
\* accepts, and no findall, finditer or Matches call on an instance throws.
C21_RejectedAtConstruction ==
    /\ (python # None /\ python # NoInstance)
          => NewRegExp(python.pattern, python.flags) # SyntaxError
    /\ (csharp # None /\ csharp # NoInstance) => csharp.regex # SyntaxError
    /\ ~result.threw

-----------------------------------------------------------------------------
(* JavaRegex: the resolved flags *)

\* The most directives a pattern made of directives only is written with.
MaxDirectives == 3

\* The bodies of the directives of such a pattern.
ChainBodies == {<<"i">>, <<"m">>, <<"i", "m">>, <<"-", "i">>, <<"-", "m">>}

\* The patterns that are n directives in a row.
ChainsOfLen[n \in 0..MaxDirectives] ==
    IF n = 0 THEN {<<>>}
    ELSE {p \o Directive(b) : p \in ChainsOfLen[n - 1], b \in ChainBodies}

\* new JavaRegex(p), by either definition of the class, for a pattern of up
\* to MaxDirectives directives.
JavaChainInit ==
    \E n \in 0..MaxDirectives : \E p \in ChainsOfLen[n] :
        /\ java = JavaRegex(p)
        /\ java2 = JavaRegex2(p)
        /\ jresult = [op |-> "new", str |-> <<>>, out |-> <<>>, out2 |-> <<>>]
        /\ python = None /\ python1 = None /\ csharp = None /\ rust = None /\ go = None
        /\ pc = "idle" /\ frame = IdleFrame /\ result = NoResult

SpecJavaChain == JavaChainInit /\ [][JavaNext]_vars

\* The first occurrence of flag c in the script that enables it, 0 when no
\* occurrence does.
FirstEnabled(script, c) ==
    IF \E k \in 1..Len(script) : script[k] = c /\ Enables(script, k)
    THEN CHOOSE k \in 1..Len(script) :
            /\ script[k] = c /\ Enables(script, k)
            /\ \A t \in 1..(k - 1) : ~(script[t] = c /\ Enables(script, t))
    ELSE 0

\* Each character of flags stands there once.
NoDuplicates(flags) ==
    \A a, b \in 1..Len(flags) : flags[a] = flags[b] => a = b

\* The flags stand in the order of their first enabling occurrences in p.
InFirstEnabledOrder(p, flags) ==
    LET script == Script(SpanBodies(p, 1))
    IN  \A a, b \in 1..Len(flags) :
           a < b => FirstEnabled(script, flags[a]) < FirstEnabled(script, flags[b])

\* What C22 says of the flags of one instance.
ResolvedFlags(j) ==
    /\ NoDuplicates(j.flags)
    /\ \A k \in 1..Len(j.flags) : j.flags[k] \in FlagLetters
    /\ InFirstEnabledOrder(j.pattern, j.flags)

\* C22: the flags of a JavaRegex, of either definition, hold each flag
\* character at most once, hold only the characters i, m, x and s, and list
\* them in the order in which the directives of the pattern first enabled
\* them.
C22_ResolvedFlags ==
    /\ java # Threw => ResolvedFlags(java)
    /\ java2 # Threw => ResolvedFlags(java2)

-----------------------------------------------------------------------------
(* PythonRegex of Python.ts lines 1-146: the verbose flag *)

\* The longest pattern compiled with the verbose flag.
MaxVerboseLen == 3

\* The characters of those patterns: a literal, the white space characters
\* blank and line feed, the comment sign and the backslash.
VerboseChars == {"a", " ", "\n", "#", "\\"}

VerbosePatterns == UNION {[1..n -> VerboseChars] : n \in 0..MaxVerboseLen}

\* The pattern the caller is about to construct a PythonRegex from.
VerboseInit ==
    /\ \E p \in VerbosePatterns : frame = [IdleFrame EXCEPT !.text = p]
    /\ java = None /\ java2 = None /\ python = None /\ python1 = None
    /\ csharp = None /\ rust = None /\ go = None
    /\ jresult = NoResult
    /\ pc = "idle" /\ result = NoResult

\* new PythonRegex(pattern, flags) as far as the call of new RegExp: the
\* pattern compile hands to it.
compileCall ==
    /\ result.op = "none"
    /\ \E flags \in {<<>>, <<"x">>} :
          result' = [NoResult EXCEPT !.op = "compile", !.text = frame.text,
                                     !.arg = flags,
                                     !.out = <<compilePattern(frame.text, flags)>>]
    /\ UNCHANGED <<instances, jresult, pc, frame>>

SpecVerbose == VerboseInit /\ [][compileCall]_vars

\* A verbose pattern as the claim reads it: a backslash and the character
\* after it stay; of the rest, white space goes and a comment goes from its
\* # up to the end of its line.
RECURSIVE VerboseStripped(_, _)
VerboseStripped(p, inComment) ==
    IF p = <<>> THEN <<>>
    ELSE IF inComment
         THEN VerboseStripped(Tail(p), Head(p) # "\n")
    ELSE IF Head(p) = "\\" /\ Len(p) >= 2
         THEN <<p[1], p[2]>> \o VerboseStripped(SubSeqFrom(p, 3), FALSE)
    ELSE IF Head(p) \in {" ", "\n"} THEN VerboseStripped(Tail(p), FALSE)
    ELSE IF Head(p) = "#" THEN VerboseStripped(Tail(p), TRUE)
    ELSE <<Head(p)>> \o VerboseStripped(Tail(p), FALSE)

\* C23: with the flag x the pattern handed to the engine is the original
\* pattern with every unescaped white space character removed and every
\* comment removed from its unescaped # to the end of that line only: what
\* stands on the lines after a comment is kept, and so are escaped white
\* space and an escaped #.
C23_VerbosePattern ==
    (result.op = "compile" /\ SeqHas(result.arg, "x"))
       => result.out = <<VerboseStripped(result.text, FALSE)>>

-----------------------------------------------------------------------------
(* PythonRegex.split without a limit *)

\* C24: split(text) of a non-empty pattern, the limit absent, returns the
\* pieces text.split(regex) returns, for every text, those that begin or end
\* with a separator included.
C24_SplitUnlimited ==
    (result.op = "split" /\ ~result.threw /\ result.n = -1 /\ python.pattern # <<>>)
       => result.out = StringSplit(result.text, compileRegex(python, <<>>), -1)

-----------------------------------------------------------------------------
(* PythonRegex.split: the loop ends *)

\* C28: split returns for every pattern, text and maxsplit: every step of its
\* loop moves the scan position past the match it consumed, so a text of N
\* characters is done after at most N steps and one more exec call.
C28_SplitTerminates ==
    pc = "split"
       => /\ frame.execs <= Len(frame.text)
          /\ frame.execs > 0 => frame.currentPosition >= frame.execs

-----------------------------------------------------------------------------
(* PythonRegex.finditer against PythonRegex.findall *)

\* findall's loop run to its end: the matches pushed, regex being the global
\* regex as the iterations so far have left it.
RECURSIVE FindallFrom(_, _, _)
FindallFrom(regex, text, matches) ==
    LET m == Exec(regex, text)
    IN  IF m.found
        THEN FindallFrom([regex EXCEPT !.lastIndex = lastIndexAfter(m)], text,
                         Append(matches, Matched(text, m)))
        ELSE matches

\* findall(text) of an instance whose pattern compiles.
PythonFindall(self, text) == FindallFrom(compileRegex(self, <<"g">>), text, <<>>)

\* C30: the full-match strings finditer yields are the list findall returns
\* for the same pattern and text, in the same order and as many.
C30_FinditerIsFindall ==
    (result.op = "finditer" /\ ~result.threw)
       => result.out = PythonFindall(python, result.text)

-----------------------------------------------------------------------------
(* GoRegex: matchString, findString and findAllString on one instance *)

\* matchString: this.re.test(str), which is exec and leaves lastIndex as exec
\* does.
matchString ==
    /\ pc = "idle" /\ go # None
    /\ \E str \in Texts :
          LET m == Exec(go.re, str)
          IN  /\ result' = [NoResult EXCEPT !.op = "matchString", !.text = str,
                                            !.from = go.re.lastIndex,
                                            !.ok = m.found]
              /\ go' = [go EXCEPT !.re.lastIndex = m.lastIndex]
    /\ UNCHANGED <<java, java2, python, python1, csharp, rust, jresult, pc, frame>>

\* findString: match[0], or '' when exec returns null.
findString ==
    /\ pc = "idle"
    /\ \E str \in Texts :
          LET m == Exec(go.re, str)
          IN  /\ result' = [NoResult EXCEPT
                               !.op = "findString", !.text = str,
                               !.from = go.re.lastIndex, !.ok = m.found,
                               !.out = <<IF m.found THEN Matched(str, m) ELSE <<>>>>]
              /\ go' = [go EXCEPT !.re.lastIndex = m.lastIndex]
    /\ UNCHANGED <<java, java2, python, python1, csharp, rust, jresult, pc, frame>>

GoFindNext ==
    matchString \/ findString \/ findAllString \/ findAllStringLoop

SpecGoFind == GoInit /\ [][GoFindNext]_vars

\* What a call that has not returned after MaxExecs exec calls has returned.
StillRunning == <<<<"<running>">>>>

\* findAllString's loop run to its end, or as far as MaxExecs exec calls: the
\* matches pushed.
RECURSIVE GoFindAllFrom(_, _, _, _, _, _)
GoFindAllFrom(re, str, n, count, matches, execs) ==
    LET m == Exec(re, str)
    IN  IF execs >= MaxExecs THEN StillRunning
        ELSE IF m.found /\ (n = -1 \/ count < n)
             THEN IF ~IsGlobal(re) THEN Append(matches, Matched(str, m))
                  ELSE GoFindAllFrom([re EXCEPT !.lastIndex = m.lastIndex], str, n,
                                     count + 1, Append(matches, Matched(str, m)),
                                     execs + 1)
             ELSE matches

\* The instance as its constructor leaves it.
Fresh(self) == [self EXCEPT !.re.lastIndex = 0]

\* C25: whatever matchString, findString and findAllString calls an instance
\* has served, with whatever flags it was constructed, its next matchString,
\* findString or findAllString call returns what the same call returns on a
\* freshly constructed instance: the scan starts at offset 0.
C25_NoCursorRetained ==
    LET fresh == Fresh(go).re
        m     == Exec(fresh, result.text)
    IN  /\ result.op = "matchString" => result.ok = m.found
        /\ result.op = "findString"
              => result.out = <<IF m.found THEN Matched(result.text, m) ELSE <<>>>>
        /\ result.op = "findAllString"
              => result.out = GoFindAllFrom(fresh, result.text, result.n, 0, <<>>, 0)

-----------------------------------------------------------------------------
(* RustRegex: the first-match methods on one instance *)

\* find: match[0], or null.
find ==
    /\ pc = "idle" /\ rust # NoInstance
    /\ \E text \in Texts :
          LET m == Exec(rust.regex, text)
          IN  /\ result' = [NoResult EXCEPT
                               !.op = "find", !.text = text, !.ok = m.found,
                               !.out = <<IF m.found THEN Matched(text, m) ELSE NoString>>]
              /\ rust' = [rust EXCEPT !.regex.lastIndex = m.lastIndex]
    /\ UNCHANGED <<java, java2, python, python1, csharp, go, jresult, pc, frame>>

\* captures: match.slice(1), or null.
captures ==
    /\ pc = "idle" /\ rust # NoInstance
    /\ \E text \in Texts :
          LET m == Exec(rust.regex, text)
          IN  /\ result' = [NoResult EXCEPT
                               !.op = "captures", !.text = text, !.ok = m.found,
                               !.out = IF m.found
                                       THEN Captures(rust.regex, text, m.index)
                                       ELSE <<>>]
              /\ rust' = [rust EXCEPT !.regex.lastIndex = m.lastIndex]
    /\ UNCHANGED <<java, java2, python, python1, csharp, go, jresult, pc, frame>>

\* findStartEnd: [match.index, match.index + match[0].length], or null.
findStartEnd ==
    /\ pc = "idle" /\ rust # NoInstance
    /\ \E text \in Texts :
          LET m == Exec(rust.regex, text)
          IN  /\ result' = [NoResult EXCEPT
                               !.op = "findStartEnd", !.text = text, !.ok = m.found,
                               !.spans = IF m.found
                                         THEN <<[index |-> m.index, end |-> m.end]>>
                                         ELSE <<>>]
              /\ rust' = [rust EXCEPT !.regex.lastIndex = m.lastIndex]
    /\ UNCHANGED <<java, java2, python, python1, csharp, go, jresult, pc, frame>>

\* new RustRegex(p, f), the flag y among the flags.
RustFindInit ==
    /\ \E p \in Patterns \cup NamedPatterns, f \in RustFlags \cup {<<"y">>} :
          rust = RustRegex(p, f)
    /\ java = None /\ java2 = None /\ python = None /\ python1 = None
    /\ csharp = None /\ go = None
    /\ jresult = NoResult
    /\ pc = "idle" /\ frame = IdleFrame /\ result = NoResult

RustFindNext == isMatch \/ find \/ captures \/ findStartEnd \/ isMatchFull

SpecRustFind == RustFindInit /\ [][RustFindNext]_vars

\* C26: isMatch, find, captures, findStartEnd and isMatchFull return, after
\* whatever calls in whatever order, what they return on the instance as it
\* was constructed: the leftmost match of a scan from offset 0.
C26_FirstMatchStateless ==
    LET regex == [rust.regex EXCEPT !.lastIndex = 0]
        m     == Exec(regex, result.text)
        first == IF m.found THEN <<[index |-> m.index, end |-> m.end]>> ELSE <<>>
    IN  /\ result.op \in {"isMatch", "find", "captures", "findStartEnd"}
              => result.ok = m.found
        /\ result.op = "find"
              => result.out = <<IF m.found THEN Matched(result.text, m) ELSE NoString>>
        /\ result.op = "captures"
              => result.out = IF m.found THEN Captures(regex, result.text, m.index)
                              ELSE <<>>
        /\ result.op = "findStartEnd" => result.spans = first
        /\ result.op = "isMatchFull"
              => result.ok = (m.found /\ m.index = 0 /\ m.end = Len(result.text))

-----------------------------------------------------------------------------
(* RustRegex: findIter, findStartEndIter and capturesIter *)

\* findIter up to its loop: the empty list and lastIndex = 0.
findIter ==
    /\ pc = "idle" /\ rust # NoInstance
    /\ \E text \in Texts :
          /\ pc' = "findIter"
          /\ frame' = [IdleFrame EXCEPT !.text = text,
                                        !.from = rust.regex.lastIndex]
          /\ result' = NoResult
    /\ UNCHANGED <<instances, jresult>>

\* findStartEndIter up to its loop.
findStartEndIter ==
    /\ pc = "idle" /\ rust # NoInstance
    /\ \E text \in Texts :
          /\ pc' = "findStartEndIter"
          /\ frame' = [IdleFrame EXCEPT !.text = text,
                                        !.from = rust.regex.lastIndex]
          /\ result' = NoResult
    /\ UNCHANGED <<instances, jresult>>

\* capturesIter up to its loop.
capturesIter ==
    /\ pc = "idle" /\ rust # NoInstance
    /\ \E text \in Texts :
          /\ pc' = "capturesIter"
          /\ frame' = [IdleFrame EXCEPT !.text = text,
                                        !.from = rust.regex.lastIndex]
          /\ result' = NoResult
    /\ UNCHANGED <<instances, jresult>>

\* The methods whose loop is "while ((match =
\* this.regex.exec(text.slice(lastIndex))) !== null)".
RustIterOps == {"findIter", "findStartEndIter", "capturesIter"}

\* One evaluation of that loop condition with the body or the return that
\* follows it; the three loops differ in what they push.  The matches are
\* kept as their offsets in text, the groups capturesIter pushes one after
\* the other in names.
rustIterLoop ==
    /\ pc \in RustIterOps
    /\ frame.execs < MaxExecs
    /\ LET rest == Substring(frame.text, frame.lastIndex, Len(frame.text))
           m    == Exec(rust.regex, rest)
       IN  IF m.found
           THEN /\ frame' = [frame EXCEPT
                       !.spans = Append(@, [index |-> frame.lastIndex + m.index,
                                            end |-> frame.lastIndex + m.end]),
                       !.names = IF pc = "capturesIter"
                                 THEN @ \o Captures(rust.regex, rest, m.index)
                                 ELSE @,
                       !.lastIndex = @ + m.index + (m.end - m.index),
                       !.execs = @ + 1]
                /\ rust' = [rust EXCEPT !.regex.lastIndex = 0]
                /\ UNCHANGED <<pc, result>>
           ELSE /\ pc' = "idle"
                /\ frame' = IdleFrame
                /\ result' = [NoResult EXCEPT
                                 !.op = pc, !.text = frame.text, !.from = frame.from,
                                 !.out = IF pc = "capturesIter" THEN frame.names
                                         ELSE Strings(frame.text, frame.spans),
                                 !.spans = frame.spans, !.execs = frame.execs + 1]
                /\ rust' = [rust EXCEPT !.regex.lastIndex = m.lastIndex]
    /\ UNCHANGED <<java, java2, python, python1, csharp, go, jresult>>

RustIterNext == findIter \/ findStartEndIter \/ capturesIter \/ rustIterLoop

SpecRustIter == RustInit /\ [][RustIterNext]_vars

\* The loops that collect all matches of a text.
IterLoops == RustIterOps \cup {"findAllString"}

\* C27: findIter, findStartEndIter, capturesIter and findAllString with
\* n = -1 on a global regex return for every pattern and text: a loop has
\* found at most Len(text) + 1 matches, and after a match of length zero its
\* cursor stands one code unit further.
C27_IterTerminates ==
    LET cursor == IF pc = "findAllString" THEN go.re.lastIndex ELSE frame.lastIndex
        last   == frame.spans[Len(frame.spans)]
    IN  (pc \in IterLoops /\ (pc = "findAllString" => frame.n = -1 /\ IsGlobal(go.re)))
           => /\ Len(frame.spans) <= Len(frame.text) + 1
              /\ (frame.spans # <<>> /\ last.end = last.index)
                    => cursor = last.end + 1

-----------------------------------------------------------------------------
(* The calls that need global mode *)

\* findStringSubmatch had it run exec on the instance's own regex.
GoFindStringSubmatchOnRe(self, str) ==
    LET m == Exec(self.re, str)
    IN  [receiver |-> [self EXCEPT !.re.lastIndex = m.lastIndex],
         regex |-> self.re]

\* GoRegex.findStringSubmatch: the receiver after the call and the regex
\* exec is called on, a new one with the receiver's source and its flags
\* without the first g.
GoFindStringSubmatch(self, str) ==
    [receiver |-> self,
     regex |-> NewRegExp(self.re.source, RemoveFirst(self.re.flags, "g"))]

findStringSubmatch ==
    /\ pc = "idle" /\ go # None
    /\ \E str \in Texts :
          LET r == GoFindStringSubmatch(go, str)
          IN  /\ go' = r.receiver
              /\ result' = [MatchResult("findStringSubmatch", str, r.regex)
                              EXCEPT !.from = go.re.lastIndex]
    /\ UNCHANGED <<java, java2, python, python1, csharp, rust, jresult, pc, frame>>

\* One instance of one of the four classes: new JavaRegex(p) with or without
\* the directive (?i) before the pattern, new PythonRegex(p, f),
\* new CSharpRegex(p, o) or new GoRegex(p, f).
GlobalModeInit ==
    /\ \E p \in Patterns :
          \/ /\ \E d \in {<<>>, Directive(<<"i">>)} :
                   java = JavaRegex(d \o p) /\ java2 = JavaRegex2(d \o p)
             /\ java # Threw /\ java2 # Threw
             /\ python = None /\ csharp = None /\ go = None
          \/ /\ \E f \in PyFlags : python = PythonRegex(p, f)
             /\ java = None /\ java2 = None /\ csharp = None /\ go = None
          \/ /\ \E o \in CsOptions : csharp = CSharpRegex(p, o)
             /\ csharp # NoInstance
             /\ java = None /\ java2 = None /\ python = None /\ go = None
          \/ /\ \E f \in GoFlags : go = GoRegex(p, f)
             /\ go # NoInstance
             /\ java = None /\ java2 = None /\ python = None /\ csharp = None
    /\ python1 = None /\ rust = None
    /\ jresult = [op |-> "new", str |-> <<>>, out |-> <<>>, out2 |-> <<>>]
    /\ pc = "idle" /\ frame = IdleFrame /\ result = NoResult

\* The calls that need global mode, and matchString, which moves the cursor
\* of a GoRegex.
GlobalModeNext ==
    \/ replace
    \/ Matches \/ MatchesLoop
    \/ findall \/ findallLoop \/ finditer \/ finditerLoop
    \/ sub \/ split \/ splitLoop
    \/ findStringSubmatch
    \/ matchString

SpecGlobalMode == GlobalModeInit /\ [][GlobalModeNext]_vars

\* The pattern text and the flags the instance holds.
Stored ==
    IF java # None
    THEN <<java.pattern, java.flags, java.jsPattern.source, java.jsPattern.flags,
           java2.pattern, java2.flags, java2.jsPattern.source, java2.jsPattern.flags>>
    ELSE IF python # None THEN <<python.pattern, python.flags>>
    ELSE IF csharp # None THEN <<csharp.regex.source, csharp.regex.flags>>
    ELSE <<go.originalPattern, go.flags, go.re.source, go.re.flags>>

\* What the first-match operations of the instance return for text t:
\* JavaRegex.match and search, PythonRegex.search, CSharpRegex.Match,
\* GoRegex.findString.
FirstMatch(t) ==
    IF java # None
    THEN <<JavaMatch(java, t), JavaSearch(java, t),
           JavaMatch(java2, t), JavaSearch(java2, t)>>
    ELSE IF python # None
    THEN LET regex == compileRegex(python, <<>>)
             m     == Exec(regex, t)
         IN  IF regex = SyntaxError THEN <<NoString, <<"threw">>>>
             ELSE <<IF m.found THEN Matched(t, m) ELSE NoString, <<m.index>>>>
    ELSE LET m == Exec(IF csharp # None THEN csharp.regex ELSE go.re, t)
         IN  <<IF m.found THEN Matched(t, m) ELSE NoString, <<m.index>>>>

FirstMatches == [t \in Texts |-> FirstMatch(t)]

\* C29: a step of JavaRegex.replace, CSharpRegex.Matches, PythonRegex.findall,
\* finditer, sub or split, or of GoRegex.findStringSubmatch leaves the
\* pattern text and the flags the instance holds as they were, g neither
\* added nor removed, and leaves every first-match operation of the instance
\* returning what it returned before the step.  (What they return is read
\* off the instance alone, so nothing is to compare where the step leaves
\* the instance untouched.)
C29_GlobalModeOnACopy ==
    [][result'.op # "matchString"
          => /\ Stored' = Stored
             /\ instances' = instances \/ FirstMatches' = FirstMatches]_vars

\* C29 witness: findStringSubmatch found a match on a GoRegex with the flag g
\* that earlier matchString calls had left at a lastIndex other than 0.
C29_Witness ==
    /\ result.op = "findStringSubmatch" /\ result.ok
    /\ IsGlobal(go.re) /\ go.re.lastIndex > 0

====
